---- MODULE Spec2Model ----
(***************************************************************************)
(* A model of tmuxy's control-mode bridge:                                 *)
(*   - the notification parser            (tmuxy-core control_mode/parser) *)
(*   - the state aggregator and its delta (tmuxy-core control_mode/state)  *)
(*   - the monitor loop's command arm     (tmuxy-core control_mode/monitor)*)
(*   - the session registry               (tmuxy-cli sse.rs, and the older *)
(*     web-server websocket.rs)                                            *)
(* Each part has its own specification over its own group of variables;    *)
(* the other groups stay as Init left them.                                *)
(***************************************************************************)
EXTENDS Integers, Sequences, FiniteSets, TLC

VARIABLES
    \* ---- Parser (parser.rs:128-133) ----
    in_response,            \* Parser.in_response
    response_buffer,        \* Parser.response_buffer, a sequence of tokens, "\n" the separator
    response_timestamp,     \* Parser.response_timestamp
    response_command_num,   \* Parser.response_command_num
    lineLog,                \* the lines fed to parse_line so far
    parserEvents,           \* the events parse_line has returned so far
    \* ---- Monitor and aggregator (monitor.rs:188-342, state.rs:406-444) ----
    aggregator,             \* TmuxMonitor.aggregator, a StateAggregator
    pending_output_emit,    \* run()'s pending_output_emit
    lastSent,               \* the commands the last step wrote to tmux
    lastUpdate,             \* what the last to_state_update call computed and returned
    seqLog,                 \* the seq of every update sent to the session's channel
    lastEventType,          \* the kind of the last step
    lastListed,             \* the pane sets of the last two list-panes responses, newest first
    reconnects,             \* how often the monitor has reconnected
    steps,                  \* events processed so far
    \* ---- Registry (web-server lib.rs:18-46, sse.rs) and monitor tasks ----
    sessions,               \* AppState.sessions, for the one session name
    next_conn_id,           \* AppState.next_conn_id
    clientPhase,            \* per connection: "new", "attached", "cleanup", "gone"
    sizeOp,                 \* per connection: a set_client_size past its lock section
    cleanupOp,              \* per connection: a cleanup_connection past its lock section
    tasks,                  \* the monitor tasks: position, channel, backoff, connection
    spawned,                \* how many monitor tasks were spawned
    next_chan,              \* the name of the next command channel
    inbox,                  \* per command channel: the commands queued
    tmuxResize,             \* the size of the last resize command tmux got
    lastCleanup,            \* what the last cleanup of a last client did
    lastResizeSend,         \* the last ResizeWindow the registry sent to a monitor:
                            \* by which operation, and whether its size repeats
                            \* the last_resize the operation found
    \* ---- The emission throttle of TmuxMonitor::run (monitor.rs:208-342) ----
    clock,                  \* the time in ms since run() set up its throttle state
    throttle,               \* run()'s last_output_emit, pending_output_emit,
                            \* rate_window_start and rate_event_count
    arrived,                \* what was received in this millisecond
    steady,                 \* every millisecond so far brought an output change
    emissions,              \* the updates emitted while steady
    lastIter,               \* what the last iteration of the loop saw and did
    \* ---- The session's broadcast channel and the client streams (sse.rs:118-275) ----
    bsent,                  \* how many messages were sent on the session's state_tx
    fulls,                  \* which of them (by number) are Full state updates
    rx,                     \* per connection: its receiver and what its stream yielded
    \* ---- The command endpoint (sse.rs:285-668, monitor.rs:414-438) ----
    sse_tokens,             \* AppState.sse_tokens: the registered session tokens
    has_tx,                 \* the session's entry holds a monitor_command_tx
    cmdq,                   \* the commands queued on the monitor's command channel
    tmuxIn,                 \* the last command that reached tmux, and on which way
    requests,               \* how many command requests were answered
    lastRequest,            \* the last command request
    reply,                  \* the response to it
    \* ---- The decoding of %output content (octal.rs:24-60) ----
    octRaw,                 \* the bytes a pane wrote
    octDecoded,             \* the Output event parsed from tmux's line for them
    \* ---- The OSC parser of a pane (osc.rs:27-226) ----
    osc_parser,             \* the pane's OscParser
    oscCall,                \* the last call of process: its content and what it returned
    oscCalls,               \* how many times process was called
    \* ---- The commands tmux has to answer (connection.rs, monitor.rs:128-450) ----
    outstanding,            \* the commands written to tmux that it has not answered, oldest first
    synced,                 \* sync_initial_state has run
    replies,                \* how many replies tmux has given
    \* ---- command routing ----
    session_map,            \* state.sessions: session name -> SessionConnections, or NoneV
    token_map,              \* state.sse_tokens: the token of connection c -> its session, or NoneV
    stream,                 \* each connection's SSE stream: phase and session
    in_flight,              \* commands_handler past the token lookup: the session it chose
    monitor_rx,             \* what each session's monitor received on its command channel
    handled,                \* commands handled so far
    \* ---- The monitor, the reader task and the child between two pipes (connection.rs:37-223, monitor.rs:235-276) ----
    stdin_pipe,             \* how many command lines wait in the pipe to the child's stdin
    stdout_pipe,            \* the lines in the pipe from the child's stdout
    event_ch,               \* the events in the connection's event channel
    reader,                 \* the event the reader task holds for tx.send, or NoneV
    child,                  \* the line the child holds for its write to stdout, or NoneV
    mon,                    \* the monitor: at its select, or in a write with lines left
    outputs,                \* how many lines tmux has put out
    commands_in,            \* how many commands the monitor took from its command channel
    \* ---- the end of TmuxMonitor::run ----
    running,                \* the loop of run() has not reached its break
    errors,                 \* the emit_error calls of the Exit arm
    \* ---- a pane on the level of its bytes ----
    raw_pane,               \* the raw buffer, the OSC parser and the grid size of a PaneState
    raw_op,                 \* the last method called on it
    raw_ops                 \* the number of calls

parserVars ==
    <<in_response, response_buffer, response_timestamp, response_command_num,
      lineLog, parserEvents>>

aggVars ==
    <<aggregator, pending_output_emit, lastSent, lastUpdate, seqLog,
      lastEventType, lastListed, reconnects, steps>>

regVars ==
    <<sessions, next_conn_id, clientPhase, sizeOp, cleanupOp, tasks, spawned,
      next_chan, inbox, tmuxResize, lastCleanup, lastResizeSend>>

loopVars ==
    <<clock, throttle, arrived, steady, emissions, lastIter>>

streamVars ==
    <<bsent, fulls, rx>>

cmdVars ==
    <<sse_tokens, has_tx, cmdq, tmuxIn, requests, lastRequest, reply>>

octalVars ==
    <<octRaw, octDecoded>>

oscVars ==
    <<osc_parser, oscCall, oscCalls>>

tmuxVars ==
    <<outstanding, synced, replies>>

routeVars ==
    <<session_map, token_map, stream, in_flight, monitor_rx, handled>>

pipeVars ==
    <<stdin_pipe, stdout_pipe, event_ch, reader, child, mon, outputs, commands_in>>

runVars ==
    <<running, errors>>

byteVars ==
    <<raw_pane, raw_op, raw_ops>>

vars ==
    <<parserVars, aggVars, regVars, loopVars, streamVars, cmdVars, octalVars, oscVars, tmuxVars, routeVars, pipeVars, runVars, byteVars>>

\* the groups a specification leaves alone
notParser == <<aggVars, regVars, loopVars, streamVars, cmdVars, octalVars, oscVars, tmuxVars, routeVars, pipeVars, runVars, byteVars>>

notAgg == <<parserVars, regVars, loopVars, streamVars, cmdVars, octalVars, oscVars, tmuxVars, routeVars, pipeVars, runVars, byteVars>>

notReg == <<parserVars, aggVars, loopVars, streamVars, cmdVars, octalVars, oscVars, tmuxVars, routeVars, pipeVars, runVars, byteVars>>

notLoop == <<parserVars, aggVars, regVars, streamVars, cmdVars, octalVars, oscVars, tmuxVars, routeVars, pipeVars, runVars, byteVars>>

notLoopRun == <<parserVars, aggVars, regVars, streamVars, cmdVars, octalVars, oscVars, tmuxVars, routeVars, pipeVars, byteVars>>

notCmd == <<parserVars, aggVars, regVars, loopVars, streamVars, octalVars, oscVars, tmuxVars, routeVars, pipeVars, runVars, byteVars>>

notStream == <<parserVars, aggVars, regVars, loopVars, cmdVars, octalVars, oscVars, tmuxVars, routeVars, pipeVars, runVars, byteVars>>

notOctal == <<parserVars, aggVars, regVars, loopVars, streamVars, cmdVars, oscVars, tmuxVars, routeVars, pipeVars, runVars, byteVars>>

notOsc == <<parserVars, aggVars, regVars, loopVars, streamVars, cmdVars, octalVars, tmuxVars, routeVars, pipeVars, runVars, byteVars>>

\* the groups the monitor with its tmux leaves alone
notAggTmux == <<parserVars, regVars, loopVars, streamVars, cmdVars, octalVars, oscVars, routeVars, pipeVars, runVars, byteVars>>

notTmux == <<parserVars, aggVars, regVars, loopVars, streamVars, cmdVars, octalVars, oscVars, routeVars, pipeVars, runVars, byteVars>>

notRoute == <<parserVars, aggVars, regVars, loopVars, streamVars, cmdVars, octalVars, oscVars, tmuxVars, pipeVars, runVars, byteVars>>

notPipe == <<parserVars, aggVars, regVars, loopVars, streamVars, cmdVars, octalVars, oscVars, tmuxVars, routeVars, runVars, byteVars>>

notRun == <<parserVars, aggVars, regVars, loopVars, streamVars, cmdVars, octalVars, oscVars, tmuxVars, routeVars, pipeVars, byteVars>>

notByte == <<parserVars, aggVars, regVars, loopVars, streamVars, cmdVars, octalVars, oscVars, tmuxVars, routeVars, pipeVars, runVars>>

(***************************************************************************)
(* Bounds                                                                  *)
(***************************************************************************)
MaxLines == 4

MaxRaw == 3

MaxReplies == 7

MaxOutstanding == 4

MaxOscCalls == 2

MaxEvents == 3

\* events of a copy-mode session
MaxCopyEvents == 5

\* events of a session that runs a client's command
MaxLineEvents == 4

\* commands handled by the command endpoint in a routing run
MaxHandled == 3

\* the event channel of the connection holds 1000 events; the pipes of the
\* child hold what the kernel gives them; both scaled down
ChannelCap == 2

PipeCap == 2

\* lines tmux puts out, commands the clients send, and the lines of the
\* longest command in units of the pipe
MaxOutputs == 6

MaxCommandsIn == 2

MaxCommandLen == 3

MaxPending == 3

MaxReconnects == 1

MaxConns == 2

MaxTasks == 2

MaxChans == 2

MaxInbox == 2

MaxBackoffs == 1

MaxTime == 110

\* the time, in ms, up to which the fair run of the loop is followed
LiveTime == 40

\* the calls made on the pane whose bytes are followed
MaxPaneOps == 3

\* the lengths of the long capture-pane outputs: under and over 64 KiB
LongCaptures == {65530, 65537}

MaxSent == 102

MaxVaried == 2

MaxRequests == 3

(***************************************************************************)
(* Small helpers                                                           *)
(***************************************************************************)
\* Option<T>: None is the empty tuple, Some(v) the one-element tuple
NoneV == <<>>

Some(v) == <<v>>

IsSome(o) == o # <<>>

\* HashMap::insert
Put(f, k, v) ==
    [x \in (DOMAIN f) \cup {k} |-> IF x = k THEN v ELSE f[x]]

\* HashMap::retain, by the set of keys kept
Restrict(f, S) ==
    [x \in S |-> f[x]]

SetMax(S, d) ==
    IF S = {} THEN d ELSE CHOOSE m \in S : \A n \in S : n <= m

(***************************************************************************)
(*                              PARSER                                     *)
(* A line is the sequence of its whitespace-separated words; the empty     *)
(* line is <<>>.  A line "starts with `%begin '" when its first word is    *)
(* %begin and more follows.                                                *)
(***************************************************************************)
ParserLines ==
    { <<"%begin", "9", "1", "0">>,
      <<"%begin", "9", "2", "0">>,
      <<"%begin", "9", "x", "0">>,
      <<"%begin", "9">>,
      <<"%end", "9", "1", "0">>,
      <<"%error", "9", "1", "0">>,
      <<>>,
      <<"x">>,
      <<"%sessions-changed">> }

\* str::starts_with("<word> ")
StartsWith(line, word) ==
    Len(line) >= 2 /\ line[1] = word

\* str::parse::<u32>() / parse::<u64>(): -1 stands for Err
ParseNum(tok) ==
    CASE tok = "0" -> 0
      [] tok = "1" -> 1
      [] tok = "2" -> 2
      [] tok = "4" -> 4
      [] tok = "8" -> 8
      [] tok = "9" -> 9
      [] OTHER -> -1

UnwrapOr(v, d) ==
    IF v = -1 THEN d ELSE v

\* The token of a %begin line that handle_begin reads as the command number.
BeginNumMutant(line) ==
    UnwrapOr(ParseNum(line[2]), 0)

BeginNum(line) ==
    UnwrapOr(ParseNum(line[3]), 0)

CommandResponse(num, output, success) ==
    [type |-> "CommandResponse", command_num |-> num, output |-> output,
     success |-> success]

OtherEvent(t) ==
    [type |-> t, command_num |-> 0, output |-> <<>>, success |-> TRUE]

ParserInit ==
    /\ in_response = FALSE
    /\ response_buffer = <<>>
    /\ response_timestamp = 0
    /\ response_command_num = 0
    /\ lineLog = <<>>
    /\ parserEvents = <<>>

\* parse_line, the `%begin ' arm: handle_begin
HandleBegin(line) ==
    /\ StartsWith(line, "%begin")
    /\ IF Len(line) >= 3
       THEN /\ in_response' = TRUE
            /\ response_timestamp' = UnwrapOr(ParseNum(line[2]), 0)
            /\ response_command_num' = BeginNum(line)
            /\ response_buffer' = <<>>
       ELSE UNCHANGED <<in_response, response_timestamp, response_command_num,
                        response_buffer>>
    /\ UNCHANGED parserEvents

\* parse_line, the `%end ' and `%error ' arms: handle_end
HandleEnd(line) ==
    /\ ~StartsWith(line, "%begin")
    /\ StartsWith(line, "%end") \/ StartsWith(line, "%error")
    /\ parserEvents' = Append(parserEvents,
          CommandResponse(response_command_num, response_buffer,
                          StartsWith(line, "%end")))
    /\ response_buffer' = <<>>
    /\ in_response' = FALSE
    /\ UNCHANGED <<response_timestamp, response_command_num>>

IsControlLine(line) ==
    \/ StartsWith(line, "%begin")
    \/ StartsWith(line, "%end")
    \/ StartsWith(line, "%error")

\* parse_line inside a response block: the line is appended to the buffer
Accumulate(line) ==
    /\ ~IsControlLine(line)
    /\ in_response
    /\ response_buffer' =
          (IF response_buffer # <<>> THEN response_buffer \o <<"\n">>
                                     ELSE response_buffer) \o line
    /\ UNCHANGED <<in_response, response_timestamp, response_command_num,
                   parserEvents>>

\* parse_line outside a block: parse_notification (only the notifications of
\* ParserLines are spelled out; any other line yields no event)
ParseNotification(line) ==
    /\ ~IsControlLine(line)
    /\ ~in_response
    /\ IF line = <<"%sessions-changed">>
       THEN parserEvents' = Append(parserEvents, OtherEvent("SessionsChanged"))
       ELSE UNCHANGED parserEvents
    /\ UNCHANGED <<in_response, response_buffer, response_timestamp,
                   response_command_num>>

ParseLine ==
    \E line \in ParserLines :
        /\ Len(lineLog) < MaxLines
        /\ lineLog' = Append(lineLog, line)
        /\ \/ HandleBegin(line)
           \/ HandleEnd(line)
           \/ Accumulate(line)
           \/ ParseNotification(line)

(***************************************************************************)
(*                          STATE AGGREGATOR                               *)
(* A response line is the sequence of its comma-separated parts, so a line *)
(* contains a comma when it has two parts or more; the empty line is       *)
(* <<"">>.  A response's output is the sequence of its lines.              *)
(***************************************************************************)
PaneIds == {"%0", "%1", "%2"}

WindowIds == {"@0", "@1"}

WindowNames == {"main", "__%0_group_1"}

SessionNames == {"tmuxy", "work"}

StatusLines == {"", "st"}

\* the parts that hold a '%' and those that hold a '@'
PercentParts == PaneIds \cup {"__%0_group_1"}

AtParts == WindowIds

LineContains(line, ch) ==
    CASE ch = "," -> Len(line) >= 2
      [] ch = "%" -> \E i \in 1..Len(line) : line[i] \in PercentParts
      [] ch = "@" -> \E i \in 1..Len(line) : line[i] \in AtParts

LineStartsWith(line, ch) ==
    CASE ch = "%" -> line[1] \in PaneIds
      [] ch = "@" -> line[1] \in WindowIds

\* slice::get(i) with i counted from 0
Get(parts, i) ==
    IF i + 1 <= Len(parts) THEN Some(parts[i + 1]) ELSE NoneV

\* [..].join(","), for the title parts that occur
JoinComma(parts) ==
    CASE Len(parts) = 0 -> ""
      [] Len(parts) = 1 -> parts[1]
      [] parts = <<"a", "b">> -> "a,b"

\* the bytes of a line of text: its parts, commas between them
RECURSIVE LineBytes(_)
LineBytes(line) ==
    IF Len(line) = 1 THEN (IF line[1] = "" THEN <<>> ELSE <<line[1]>>)
    ELSE <<line[1], ",">> \o LineBytes(Tail(line))

\* the bytes of an output: its lines, "\n" between them
RECURSIVE OutputBytes(_)
OutputBytes(output) ==
    IF output = <<>> THEN <<>>
    ELSE IF Len(output) = 1 THEN LineBytes(output[1])
    ELSE LineBytes(output[1]) \o <<"\n">> \o OutputBytes(Tail(output))

(***************************************************************************)
(* The terminal emulator of a pane (vt100::Parser): a grid of rows and a   *)
(* cursor.  "\r" returns to column 0, "\n" moves down, any other byte is   *)
(* printed at the cursor.                                                  *)
(***************************************************************************)
NewTerminal ==
    [rows |-> <<>>, cx |-> 0, cy |-> 0]

PadTo(seq, n, fill) ==
    [i \in 1..(IF Len(seq) >= n THEN Len(seq) ELSE n) |->
        IF i <= Len(seq) THEN seq[i] ELSE fill]

TermPut(t, b) ==
    LET rows == PadTo(t.rows, t.cy + 1, <<>>)
        row  == PadTo(rows[t.cy + 1], t.cx + 1, " ")
    IN  [t EXCEPT !.rows = [rows EXCEPT ![t.cy + 1] = [row EXCEPT ![t.cx + 1] = b]],
                  !.cx = t.cx + 1]

TermByte(t, b) ==
    CASE b = "\r" -> [t EXCEPT !.cx = 0]
      [] b = "\n" -> [t EXCEPT !.cy = t.cy + 1]
      [] OTHER -> TermPut(t, b)

RECURSIVE TermProcess(_, _)
TermProcess(t, bytes) ==
    IF bytes = <<>> THEN t
    ELSE TermProcess(TermByte(t, Head(bytes)), Tail(bytes))

\* ESC [ row ; col H
TermCursorTo(t, row, col) ==
    [t EXCEPT !.cy = row - 1, !.cx = col - 1]

\* capture-pane output has "\n" only: each becomes "\r\n"
RECURSIVE Normalize(_)
Normalize(bytes) ==
    IF bytes = <<>> THEN <<>>
    ELSE (IF Head(bytes) = "\n" THEN <<"\r", "\n">> ELSE <<Head(bytes)>>)
         \o Normalize(Tail(bytes))

(***************************************************************************)
(* PaneState and WindowState                                               *)
(***************************************************************************)
PaneState_new(id, width, height) ==
    [id |-> id, index |-> 0, window_id |-> "", terminal |-> NewTerminal,
     x |-> 0, y |-> 0, width |-> width, height |-> height, active |-> FALSE,
     command |-> "", title |-> "", border_title |-> "", in_mode |-> FALSE,
     copy_cursor_x |-> 0, copy_cursor_y |-> 0,
     tmux_cursor_x |-> 0, tmux_cursor_y |-> 0,
     alternate_on |-> FALSE, mouse_any_flag |-> FALSE, paused |-> FALSE,
     group_id |-> NoneV, group_tab_index |-> NoneV,
     copy_mode_content |-> NoneV]

process_output(pane, content) ==
    [pane EXCEPT !.terminal = TermProcess(pane.terminal, content)]

reset_and_process_capture(pane, content) ==
    [pane EXCEPT !.terminal = TermProcess(NewTerminal, Normalize(content))]

\* a resize that keeps the emulator of the old dimensions
ResizeKeepingTerminal(pane, width, height) ==
    IF pane.width # width \/ pane.height # height
    THEN [pane EXCEPT !.width = width, !.height = height]
    ELSE pane

resize(pane, width, height) ==
    IF pane.width # width \/ pane.height # height
    THEN [pane EXCEPT !.width = width, !.height = height,
                      !.terminal = NewTerminal]
    ELSE pane

get_content(pane) ==
    pane.terminal.rows

process_copy_mode_capture(pane, content) ==
    [pane EXCEPT !.copy_mode_content =
        Some(TermProcess(NewTerminal, Normalize(content)).rows)]

\* a conversion that always shows the live emulator
ToTmuxPaneLive(pane) ==
    [id |-> pane.index, tmux_id |-> pane.id, window_id |-> pane.window_id,
     content |-> get_content(pane),
     cursor_x |-> pane.terminal.cx, cursor_y |-> pane.terminal.cy,
     width |-> pane.width, height |-> pane.height, x |-> pane.x, y |-> pane.y,
     active |-> pane.active, command |-> pane.command, title |-> pane.title,
     border_title |-> pane.border_title, in_mode |-> pane.in_mode,
     copy_cursor_x |-> pane.copy_cursor_x, copy_cursor_y |-> pane.copy_cursor_y,
     alternate_on |-> pane.alternate_on, mouse_any_flag |-> pane.mouse_any_flag,
     paused |-> pane.paused, group_id |-> pane.group_id,
     group_tab_index |-> pane.group_tab_index]

to_tmux_pane(pane) ==
    [id |-> pane.index, tmux_id |-> pane.id, window_id |-> pane.window_id,
     content |-> IF pane.in_mode /\ IsSome(pane.copy_mode_content)
                 THEN pane.copy_mode_content[1] ELSE get_content(pane),
     cursor_x |-> pane.terminal.cx, cursor_y |-> pane.terminal.cy,
     width |-> pane.width, height |-> pane.height, x |-> pane.x, y |-> pane.y,
     active |-> pane.active, command |-> pane.command, title |-> pane.title,
     border_title |-> pane.border_title, in_mode |-> pane.in_mode,
     copy_cursor_x |-> pane.copy_cursor_x, copy_cursor_y |-> pane.copy_cursor_y,
     alternate_on |-> pane.alternate_on, mouse_any_flag |-> pane.mouse_any_flag,
     paused |-> pane.paused, group_id |-> pane.group_id,
     group_tab_index |-> pane.group_tab_index]

\* id.trim_start_matches('@').parse().unwrap_or(0)
WindowIndexOf(id) ==
    CASE id = "@0" -> 0
      [] id = "@1" -> 1
      [] OTHER -> 0

WindowState_new(id) ==
    [id |-> id, index |-> WindowIndexOf(id), name |-> "", active |-> FALSE,
     layout |-> "", float_parent |-> NoneV, float_width |-> NoneV,
     float_height |-> NoneV]

\* None, or Some of the parent pane id and the group index
parse_pane_group_window_name(name) ==
    CASE name = "__%0_group_1" -> Some([parent_pane_id |-> "%0", pane_group_index |-> 1])
      [] OTHER -> NoneV

is_float_window_name(name) ==
    name \in {"__float_1"}

to_tmux_window(w) ==
    LET pane_group_info == parse_pane_group_window_name(w.name) IN
    [id |-> w.id, index |-> w.index, name |-> w.name, active |-> w.active,
     is_pane_group_window |-> IsSome(pane_group_info),
     pane_group_parent_pane |->
        IF IsSome(pane_group_info) THEN Some(pane_group_info[1].parent_pane_id) ELSE NoneV,
     pane_group_index |->
        IF IsSome(pane_group_info) THEN Some(pane_group_info[1].pane_group_index) ELSE NoneV,
     is_float_window |-> is_float_window_name(w.name),
     float_parent |-> w.float_parent, float_width |-> w.float_width,
     float_height |-> w.float_height]

(***************************************************************************)
(* StateAggregator                                                         *)
(***************************************************************************)
StateAggregator_new ==
    [session_name |-> "tmuxy", panes |-> <<>>, windows |-> <<>>,
     active_window_id |-> NoneV, pending_captures |-> <<>>,
     cached_status_line |-> "", status_line_dirty |-> TRUE,
     prev_state |-> NoneV, delta_seq |-> 0, popup |-> NoneV]

\* get_status_line: capture_status_line answers `fetched' when the line is dirty
get_status_line(agg, fetched) ==
    IF agg.status_line_dirty
    THEN [agg EXCEPT !.cached_status_line = fetched, !.status_line_dirty = FALSE]
    ELSE agg

looks_like_capture_output(output) ==
    IF output = <<>> THEN FALSE
    ELSE LET first_line == output[1] IN
         IF /\ LineStartsWith(first_line, "%") /\ LineContains(first_line, ",")
            /\ \A i \in 1..Len(output) :
                  LineStartsWith(output[i], "%") /\ LineContains(output[i], ",")
         THEN FALSE
         ELSE IF /\ LineStartsWith(first_line, "@") /\ LineContains(first_line, ",")
                 /\ \A i \in 1..Len(output) :
                       LineStartsWith(output[i], "@") /\ LineContains(output[i], ",")
         THEN FALSE
         ELSE TRUE

queue_captures(agg, pane_ids) ==
    [agg EXCEPT !.pending_captures = agg.pending_captures \o pane_ids]

\* parts.get(i).and_then(|s| s.parse().ok()).unwrap_or(d)
GetNum(parts, i, d) ==
    IF IsSome(Get(parts, i)) THEN UnwrapOr(ParseNum(parts[i + 1]), d) ELSE d

\* s.parse::<u32>().ok()
ParseOk(s) ==
    IF ParseNum(s) = -1 THEN NoneV ELSE Some(ParseNum(s))

\* the tail of a list-panes line: border_title (which may hold commas), then
\* alternate_on, mouse_any_flag, group_id, group_tab_index
PaneLineTail(remaining_parts) ==
    LET n == Len(remaining_parts) IN
    IF n >= 4
    THEN [border_title |-> JoinComma(SubSeq(remaining_parts, 1, n - 4)),
          alternate_on |-> remaining_parts[n - 3] = "1",
          mouse_any_flag |-> remaining_parts[n - 2] = "1",
          group_id |-> IF remaining_parts[n - 1] = "" THEN NoneV
                       ELSE Some(remaining_parts[n - 1]),
          group_tab_index |-> ParseOk(remaining_parts[n])]
    ELSE IF n >= 2
    THEN [border_title |-> JoinComma(SubSeq(remaining_parts, 1, n - 2)),
          alternate_on |-> remaining_parts[n - 1] = "1",
          mouse_any_flag |-> remaining_parts[n] = "1",
          group_id |-> NoneV, group_tab_index |-> NoneV]
    ELSE [border_title |-> IF n = 1 THEN remaining_parts[1] ELSE "",
          alternate_on |-> FALSE, mouse_any_flag |-> FALSE,
          group_id |-> NoneV, group_tab_index |-> NoneV]

\* parse_list_panes_line: ok is FALSE for None; otherwise the pane map after
\* the line, the pane id and needs_capture
parse_list_panes_line(panes, parts) ==
    IF Len(parts) < 11 \/ ~LineStartsWith(parts, "%")
    THEN [ok |-> FALSE, panes |-> panes, pane_id |-> "", needs_capture |-> FALSE]
    ELSE
    LET pane_id == parts[1]
        width == UnwrapOr(ParseNum(parts[5]), 80)
        height == UnwrapOr(ParseNum(parts[6]), 24)
        in_mode == IF IsSome(Get(parts, 11)) THEN parts[12] = "1" ELSE FALSE
        window_id == IF IsSome(Get(parts, 14)) THEN parts[15] ELSE ""
        tail == PaneLineTail(SubSeq(parts, 16, Len(parts)))
        is_new_pane == pane_id \notin DOMAIN panes
        pane0 == IF is_new_pane THEN PaneState_new(pane_id, width, height)
                 ELSE panes[pane_id]
        pane1 == resize(pane0, width, height)
        was_resized == pane0.width # width \/ pane0.height # height
        pane2 == [pane1 EXCEPT
                    !.index = UnwrapOr(ParseNum(parts[2]), 0),
                    !.x = UnwrapOr(ParseNum(parts[3]), 0),
                    !.y = UnwrapOr(ParseNum(parts[4]), 0),
                    !.active = (parts[9] = "1"),
                    !.command = parts[10],
                    !.title = parts[11],
                    !.border_title = tail.border_title,
                    !.in_mode = in_mode,
                    !.copy_mode_content =
                        IF pane0.in_mode /\ ~in_mode THEN NoneV ELSE @,
                    !.copy_cursor_x = GetNum(parts, 12, 0),
                    !.copy_cursor_y = GetNum(parts, 13, 0),
                    !.window_id = window_id,
                    !.alternate_on = tail.alternate_on,
                    !.mouse_any_flag = tail.mouse_any_flag,
                    !.group_id = tail.group_id,
                    !.group_tab_index = tail.group_tab_index,
                    !.tmux_cursor_x = UnwrapOr(ParseNum(parts[7]), 0),
                    !.tmux_cursor_y = UnwrapOr(ParseNum(parts[8]), 0)]
    IN  [ok |-> TRUE, panes |-> Put(panes, pane_id, pane2), pane_id |-> pane_id,
         needs_capture |-> is_new_pane \/ was_resized]

\* parse_list_windows_line, on the aggregator (it sets active_window_id)
parse_list_windows_line(agg, parts) ==
    IF Len(parts) < 4 \/ ~LineStartsWith(parts, "@")
    THEN agg
    ELSE
    LET window_id == parts[1]
        active == parts[4] = "1"
        w0 == IF window_id \in DOMAIN agg.windows THEN agg.windows[window_id]
              ELSE WindowState_new(window_id)
        w1 == [w0 EXCEPT
                 !.index = UnwrapOr(ParseNum(parts[2]), 0),
                 !.name = parts[3],
                 !.active = active,
                 !.float_parent =
                     IF IsSome(Get(parts, 4)) /\ parts[5] # "" THEN Some(parts[5]) ELSE NoneV,
                 !.float_width =
                     IF IsSome(Get(parts, 5)) THEN ParseOk(parts[6]) ELSE NoneV,
                 !.float_height =
                     IF IsSome(Get(parts, 6)) THEN ParseOk(parts[7]) ELSE NoneV]
    IN  [agg EXCEPT !.windows = Put(agg.windows, window_id, w1),
                    !.active_window_id = IF active THEN Some(window_id) ELSE @]

\* handle_command_response, first loop: the list-panes lines
RECURSIVE ListPanesPass(_, _, _, _)
ListPanesPass(panes, lines, seen_panes, resized_panes) ==
    IF lines = <<>>
    THEN [panes |-> panes, seen_panes |-> seen_panes, resized_panes |-> resized_panes]
    ELSE LET line == Head(lines)
             r == parse_list_panes_line(panes, line)
         IN  IF LineContains(line, "%") /\ LineContains(line, ",") /\ r.ok
             THEN ListPanesPass(r.panes, Tail(lines), seen_panes \cup {r.pane_id},
                                IF r.needs_capture THEN Append(resized_panes, r.pane_id)
                                                   ELSE resized_panes)
             ELSE ListPanesPass(panes, Tail(lines), seen_panes, resized_panes)

\* handle_command_response, second loop: the list-windows lines
RECURSIVE ListWindowsPass(_, _)
ListWindowsPass(agg, lines) ==
    IF lines = <<>> THEN agg
    ELSE LET line == Head(lines) IN
         IF LineContains(line, "@") /\ LineContains(line, ",")
         THEN ListWindowsPass(
                 [parse_list_windows_line(agg, line) EXCEPT !.status_line_dirty = TRUE],
                 Tail(lines))
         ELSE ListWindowsPass(agg, Tail(lines))

\* a list-panes response that removes nothing
RetainAll(panes, seen_panes) ==
    DOMAIN panes

\* the panes a list-panes response keeps: those it saw and those without window
RetainedPanes(panes, seen_panes) ==
    {id \in DOMAIN panes : id \in seen_panes \/ panes[id].window_id = ""}

handle_command_response(agg, output) ==
    LET pass == ListPanesPass(agg.panes, output, {}, <<>>)
        is_list_panes_response == pass.seen_panes # {}
        kept == IF is_list_panes_response /\ pass.seen_panes # {}
                THEN Restrict(pass.panes, RetainedPanes(pass.panes, pass.seen_panes))
                ELSE pass.panes
    IN  [agg |-> ListWindowsPass([agg EXCEPT !.panes = kept], output),
         resized_panes |-> pass.resized_panes]

ProcessEventResult(agg, state_changed, panes_needing_refresh, change_type) ==
    [agg |-> agg, state_changed |-> state_changed,
     panes_needing_refresh |-> panes_needing_refresh, change_type |-> change_type]

handle_output(agg, pane_id, content) ==
    IF pane_id \in DOMAIN agg.panes /\ agg.panes[pane_id].window_id # ""
    THEN ProcessEventResult(
            [agg EXCEPT !.panes[pane_id] = process_output(@, content)],
            TRUE, <<>>, "PaneOutput")
    ELSE ProcessEventResult(agg, FALSE, <<>>, "None")

\* a capture-pane reply on its pane: beside the terminal in copy mode, else
\* a new terminal with the cursor moved to where tmux has it
ApplyCapture(pane, output) ==
    IF pane.in_mode
    THEN process_copy_mode_capture(pane, OutputBytes(output))
    ELSE [reset_and_process_capture(pane, OutputBytes(output))
            EXCEPT !.terminal = TermCursorTo(@, pane.tmux_cursor_y + 1,
                                             pane.tmux_cursor_x + 1)]

\* the CommandResponse arm of process_event
process_command_response(agg, output, success) ==
    IF agg.pending_captures # <<>> /\ success /\ looks_like_capture_output(output)
    THEN LET pane_id == Head(agg.pending_captures)
             popped == [agg EXCEPT !.pending_captures = Tail(@)]
         IN  ProcessEventResult(
                IF pane_id \in DOMAIN agg.panes
                THEN [popped EXCEPT !.panes[pane_id] = ApplyCapture(@, output)]
                ELSE popped,
                TRUE, <<>>, "PaneOutput")
    ELSE IF success
         THEN LET r == handle_command_response(agg, output)
              IN  ProcessEventResult(r.agg, TRUE, r.resized_panes, "Full")
         ELSE ProcessEventResult(agg, TRUE, <<>>, "Full")

ThePopup ==
    [id |-> "popup0", width |-> 4, height |-> 2, x |-> 0, y |-> 0,
     command |-> "sh", content |-> <<>>, cursor_x |-> 0, cursor_y |-> 0,
     active |-> TRUE]

\* str::split(','), for the layouts that occur
LayoutParts(layout) ==
    CASE layout = "c,4x4,0,0,0" -> <<"c", "4x4", "0", "0", "0">>
      [] layout = "c,8x4,0,0,0" -> <<"c", "8x4", "0", "0", "0">>
      [] layout = "c,8x4,0,0{4x4,0,0,0,4x4,4,0,1}" ->
            <<"c", "8x4", "0", "0{4x4", "0", "0", "0", "4x4", "4", "0", "1}">>
      [] OTHER -> <<layout>>

\* str::split('x'), for the dimensions that occur
SplitX(dims) ==
    CASE dims = "4x4" -> <<"4", "4">>
      [] dims = "8x4" -> <<"8", "4">>
      [] OTHER -> <<dims>>

\* rest.trim_end_matches(']' or '}').parse::<u32>(): rest is what follows
\* the third comma, so it parses only when it is one part
PaneIdxOf(rest) ==
    IF Len(rest) # 1 THEN -1
    ELSE ParseNum(CASE rest[1] = "1}" -> "1" [] rest[1] = "0]" -> "0"
                    [] OTHER -> rest[1])

\* format!("%{}", pane_idx)
PaneIdOfIdx(pane_idx) ==
    CASE pane_idx = 0 -> "%0"
      [] pane_idx = 1 -> "%1"
      [] pane_idx = 2 -> "%2"
      [] OTHER -> "%?"

\* parts is the layout after its checksum, split at the commas
parse_layout_recursive(agg, window_id, parts, base_x, base_y) ==
    LET unchanged == [agg |-> agg, resized_panes |-> <<>>] IN
    IF Len(parts) < 3 THEN unchanged
    ELSE LET dims == SplitX(parts[1]) IN
         IF Len(dims) # 2 THEN unchanged
         ELSE LET width == ParseNum(dims[1])
                  height == ParseNum(dims[2])
                  x == ParseNum(parts[2])
                  y == ParseNum(parts[3])
                  pane_idx == PaneIdxOf(SubSeq(parts, 4, Len(parts)))
                  pane_id == PaneIdOfIdx(pane_idx)
              IN  IF -1 \in {width, height, x, y} \/ Len(parts) < 4 \/ pane_idx = -1
                     \/ pane_id \notin DOMAIN agg.panes
                  THEN unchanged
                  ELSE IF agg.panes[pane_id].window_id # window_id THEN unchanged
                  ELSE [agg |-> [agg EXCEPT !.panes[pane_id] =
                                    resize([@ EXCEPT !.x = base_x + x, !.y = base_y + y],
                                           width, height)],
                        resized_panes |->
                            IF agg.panes[pane_id].width # width
                               \/ agg.panes[pane_id].height # height
                            THEN <<pane_id>> ELSE <<>>]

parse_layout(agg, window_id, layout) ==
    IF Len(LayoutParts(layout)) < 2 THEN [agg |-> agg, resized_panes |-> <<>>]
    ELSE parse_layout_recursive(agg, window_id, Tail(LayoutParts(layout)), 0, 0)

handle_layout_change(agg, window_id, layout) ==
    parse_layout(IF window_id \in DOMAIN agg.windows
                 THEN [agg EXCEPT !.windows[window_id].layout = layout] ELSE agg,
                 window_id, layout)

process_event(agg, ev) ==
    CASE ev.type = "Output" ->
            handle_output(agg, ev.pane_id, ev.content)
      [] ev.type = "LayoutChange" ->
            LET r == handle_layout_change(agg, ev.window_id, ev.layout)
            IN  ProcessEventResult(r.agg, TRUE, r.resized_panes, "PaneLayout")
      [] ev.type = "WindowAdd" ->
            ProcessEventResult(
                [agg EXCEPT !.windows =
                        IF ev.window_id \in DOMAIN @ THEN @
                        ELSE Put(@, ev.window_id, WindowState_new(ev.window_id)),
                            !.status_line_dirty = TRUE],
                FALSE, <<>>, "None")
      [] ev.type = "WindowClose" ->
            ProcessEventResult(
                [agg EXCEPT !.windows = Restrict(@, DOMAIN @ \ {ev.window_id}),
                            !.panes = Restrict(@, {id \in DOMAIN @ :
                                                     @[id].window_id # ev.window_id}),
                            !.status_line_dirty = TRUE],
                TRUE, <<>>, "Window")
      [] ev.type = "WindowRenamed" ->
            ProcessEventResult(
                [agg EXCEPT !.windows =
                        IF ev.window_id \in DOMAIN @
                        THEN [@ EXCEPT ![ev.window_id].name = ev.name] ELSE @,
                            !.status_line_dirty = TRUE],
                TRUE, <<>>, "Window")
      [] ev.type = "WindowPaneChanged" ->
            ProcessEventResult(
                [agg EXCEPT !.panes = [id \in DOMAIN @ |->
                        IF @[id].window_id = ev.window_id
                        THEN [@[id] EXCEPT !.active = (id = ev.pane_id)]
                        ELSE @[id]]],
                TRUE, <<>>, "PaneFocus")
      [] ev.type = "PaneModeChanged" ->
            ProcessEventResult(agg, TRUE, <<>>, "PaneFocus")
      [] ev.type = "SessionWindowChanged" ->
            ProcessEventResult(
                [agg EXCEPT !.windows = [id \in DOMAIN @ |->
                                            [@[id] EXCEPT !.active = (id = ev.window_id)]],
                            !.active_window_id = Some(ev.window_id),
                            !.status_line_dirty = TRUE],
                TRUE, <<>>, "Window")
      [] ev.type = "CommandResponse" ->
            process_command_response(agg, ev.output, ev.success)
      [] ev.type = "SessionsChanged" ->
            ProcessEventResult(agg, FALSE, <<>>, "None")
      [] ev.type = "SessionRenamed" ->
            ProcessEventResult([agg EXCEPT !.session_name = ev.name],
                               TRUE, <<>>, "Session")
      [] ev.type = "PopupOpen" ->
            ProcessEventResult([agg EXCEPT !.popup = Some(ThePopup)],
                               TRUE, <<>>, "Full")
      [] ev.type = "PopupClose" ->
            IF IsSome(agg.popup) /\ agg.popup[1].id = ev.popup_id
            THEN ProcessEventResult([agg EXCEPT !.popup = NoneV], TRUE, <<>>, "Full")
            ELSE ProcessEventResult(agg, FALSE, <<>>, "None")
      [] ev.type = "Pause" ->
            IF ev.pane_id \in DOMAIN agg.panes
            THEN ProcessEventResult([agg EXCEPT !.panes[ev.pane_id].paused = TRUE],
                                    TRUE, <<>>, "FlowPause")
            ELSE ProcessEventResult(agg, FALSE, <<>>, "None")
      [] ev.type = "Continue" ->
            IF ev.pane_id \in DOMAIN agg.panes
            THEN ProcessEventResult([agg EXCEPT !.panes[ev.pane_id].paused = FALSE],
                                    TRUE, <<>>, "FlowContinue")
            ELSE ProcessEventResult(agg, FALSE, <<>>, "None")
      [] OTHER -> ProcessEventResult(agg, FALSE, <<>>, "None")

(***************************************************************************)
(* to_tmux_state: the snapshot sent to clients.  Panes and windows are     *)
(* kept as maps by id (the code builds these maps to compare snapshots).   *)
(***************************************************************************)
VisiblePanes(agg) ==
    LET valid_pane_group_windows ==
            {w \in DOMAIN agg.windows :
                IsSome(parse_pane_group_window_name(agg.windows[w].name))}
        float_windows ==
            {w \in DOMAIN agg.windows : is_float_window_name(agg.windows[w].name)}
    IN  {id \in DOMAIN agg.panes :
            /\ agg.panes[id].window_id # ""
            /\ \/ agg.active_window_id = Some(agg.panes[id].window_id)
               \/ agg.panes[id].window_id \in valid_pane_group_windows
               \/ agg.panes[id].window_id \in float_windows}

PaneOrder == <<"%0", "%1", "%2">>

\* the first active pane of the active window, else the first active pane
\* (`first' in the order of the pane list: here the least pane id)
ActivePaneId(panes, active_window_id) ==
    LET in_active == {id \in DOMAIN panes :
                        panes[id].active /\ active_window_id = Some(panes[id].window_id)}
        any_active == {id \in DOMAIN panes : panes[id].active}
        First(S) == PaneOrder[CHOOSE k \in 1..Len(PaneOrder) :
                        PaneOrder[k] \in S /\ \A j \in 1..(k - 1) : PaneOrder[j] \notin S]
    IN  IF in_active # {} THEN Some(First(in_active))
        ELSE IF any_active # {} THEN Some(First(any_active))
        ELSE NoneV

\* to_tmux_state, from the pane and window lists it built
TmuxStateOf(agg, fetched, panes, windows) ==
    [session_name |-> agg.session_name,
     active_window_id |-> agg.active_window_id,
     active_pane_id |-> ActivePaneId(panes, agg.active_window_id),
     panes |-> panes,
     windows |-> windows,
     total_width |-> SetMax({panes[id].x + panes[id].width : id \in DOMAIN panes}, 80),
     total_height |-> SetMax({panes[id].y + panes[id].height : id \in DOMAIN panes}, 24),
     status_line |-> get_status_line(agg, fetched).cached_status_line,
     popup |-> agg.popup]

to_tmux_state(agg, fetched) ==
    TmuxStateOf(agg, fetched,
                [id \in VisiblePanes(agg) |-> to_tmux_pane(agg.panes[id])],
                [id \in DOMAIN agg.windows |-> to_tmux_window(agg.windows[id])])

(***************************************************************************)
(* to_state_update: Full or Delta                                          *)
(***************************************************************************)
compute_pane_delta(prev, curr) ==
    LET D(f) == IF prev[f] # curr[f] THEN Some(curr[f]) ELSE NoneV IN
    [window_id |-> D("window_id"), content |-> D("content"),
     cursor_x |-> D("cursor_x"), cursor_y |-> D("cursor_y"),
     width |-> D("width"), height |-> D("height"), x |-> D("x"), y |-> D("y"),
     active |-> D("active"), command |-> D("command"),
     title |-> NoneV,
     border_title |-> D("border_title"), in_mode |-> D("in_mode"),
     copy_cursor_x |-> D("copy_cursor_x"), copy_cursor_y |-> D("copy_cursor_y"),
     alternate_on |-> D("alternate_on"), mouse_any_flag |-> D("mouse_any_flag"),
     paused |-> D("paused"), group_id |-> D("group_id"),
     group_tab_index |-> D("group_tab_index")]

compute_window_delta(prev, curr) ==
    LET D(f) == IF prev[f] # curr[f] THEN Some(curr[f]) ELSE NoneV IN
    [name |-> D("name"), active |-> D("active"),
     is_pane_group_window |-> D("is_pane_group_window"),
     pane_group_parent_pane |-> D("pane_group_parent_pane"),
     pane_group_index |-> D("pane_group_index"),
     is_float_window |-> D("is_float_window"),
     float_parent |-> D("float_parent"), float_width |-> D("float_width"),
     float_height |-> D("float_height")]

\* PaneDelta::is_empty and WindowDelta::is_empty: every field is None
FieldDelta_is_empty(d) ==
    \A f \in DOMAIN d : d[f] = NoneV

TmuxDelta_new(seq) ==
    [seq |-> seq, panes |-> NoneV, windows |-> NoneV, new_panes |-> NoneV,
     new_windows |-> NoneV, active_window_id |-> NoneV, active_pane_id |-> NoneV,
     status_line |-> NoneV, total_width |-> NoneV, total_height |-> NoneV,
     popup |-> NoneV]

TmuxDelta_is_empty(delta) ==
    /\ delta.panes = NoneV
    /\ delta.windows = NoneV
    /\ delta.new_panes = NoneV
    /\ delta.new_windows = NoneV
    /\ delta.active_window_id = NoneV
    /\ delta.active_pane_id = NoneV
    /\ delta.status_line = NoneV
    /\ delta.total_width = NoneV
    /\ delta.total_height = NoneV
    /\ delta.popup = NoneV

\* the map of entry deltas: Some(delta) for an entry of both snapshots whose
\* delta is not empty, None for an entry that is gone
EntryDeltas(prev, curr, compute(_, _)) ==
    LET modified == {id \in DOMAIN curr \cap DOMAIN prev :
                        ~FieldDelta_is_empty(compute(prev[id], curr[id]))}
        removed == DOMAIN prev \ DOMAIN curr
    IN  [id \in modified \cup removed |->
            IF id \in removed THEN NoneV ELSE Some(compute(prev[id], curr[id]))]

NewEntries(prev, curr) ==
    Restrict(curr, DOMAIN curr \ DOMAIN prev)

\* a top-level field of the delta: Some(now) when it changed
Changed(before, now) ==
    IF now # before THEN Some(now) ELSE NoneV

\* a total_width that is put into every delta
ScalarDeltaAlwaysWidth(prev, current) ==
    [TmuxDelta_new(0) EXCEPT
        !.total_width = Some(current.total_width),
        !.total_height = Changed(prev.total_height, current.total_height),
        !.active_window_id = IF current.active_window_id # prev.active_window_id
                             THEN current.active_window_id ELSE NoneV,
        !.active_pane_id = IF current.active_pane_id # prev.active_pane_id
                           THEN current.active_pane_id ELSE NoneV,
        !.status_line = Changed(prev.status_line, current.status_line)]

\* to_state_update, the dimension, active window/pane and status line checks
ScalarDelta(prev, current) ==
    [TmuxDelta_new(0) EXCEPT
        !.total_width = Changed(prev.total_width, current.total_width),
        !.total_height = Changed(prev.total_height, current.total_height),
        !.active_window_id = IF current.active_window_id # prev.active_window_id
                             THEN current.active_window_id ELSE NoneV,
        !.active_pane_id = IF current.active_pane_id # prev.active_pane_id
                           THEN current.active_pane_id ELSE NoneV,
        !.status_line = Changed(prev.status_line, current.status_line)]

\* the delta of to_state_update, before the empty check and the seq
ComputeDelta(prev, current) ==
    LET pane_deltas == EntryDeltas(prev.panes, current.panes, compute_pane_delta)
        new_panes == NewEntries(prev.panes, current.panes)
        window_deltas == EntryDeltas(prev.windows, current.windows, compute_window_delta)
        new_windows == NewEntries(prev.windows, current.windows)
    IN  [ScalarDelta(prev, current) EXCEPT
            !.panes = IF DOMAIN pane_deltas # {} THEN Some(pane_deltas) ELSE NoneV,
            !.new_panes = IF DOMAIN new_panes # {} THEN Some(new_panes) ELSE NoneV,
            !.windows = IF DOMAIN window_deltas # {} THEN Some(window_deltas) ELSE NoneV,
            !.new_windows = IF DOMAIN new_windows # {} THEN Some(new_windows) ELSE NoneV,
            !.popup = Changed(prev.popup, current.popup)]

\* Option<HashMap>::map(len).unwrap_or(0)
LenOr0(opt) ==
    IF IsSome(opt) THEN Cardinality(DOMAIN opt[1]) ELSE 0

\* a Full already at half of the panes
TooLargeAtHalf(current, delta) ==
    LET total_panes == Cardinality(DOMAIN current.panes)
        changed_panes == LenOr0(delta.panes) + LenOr0(delta.new_panes)
    IN  total_panes > 0 /\ changed_panes >= total_panes \div 2

\* the Full-or-Delta choice at the end of to_state_update
TooLarge(current, delta) ==
    LET total_panes == Cardinality(DOMAIN current.panes)
        changed_panes == LenOr0(delta.panes) + LenOr0(delta.new_panes)
    IN  total_panes > 0 /\ changed_panes > total_panes \div 2

\* to_state_update with a previous snapshot: nothing for an empty delta,
\* else the next seq and a Full or a Delta
StateUpdateFrom(agg, agg1, prev, current, delta) ==
    IF TmuxDelta_is_empty(delta)
    THEN [agg |-> agg1, kind |-> "None", first |-> FALSE,
          seq |-> agg.delta_seq,
          prev |-> prev, current |-> current, delta |-> delta]
    ELSE [agg |-> [agg1 EXCEPT !.delta_seq = agg.delta_seq + 1,
                               !.prev_state = Some(current)],
          kind |-> IF TooLarge(current, delta) THEN "Full" ELSE "Delta",
          first |-> FALSE, seq |-> agg.delta_seq + 1,
          prev |-> prev, current |-> current,
          delta |-> [delta EXCEPT !.seq = agg.delta_seq + 1]]

\* to_state_update once the current snapshot is built (agg1: the aggregator
\* after get_status_line)
StateUpdateOf(agg, agg1, current) ==
    IF agg.prev_state = NoneV
    THEN [agg |-> [agg1 EXCEPT !.prev_state = Some(current), !.delta_seq = 1],
          kind |-> "Full", first |-> TRUE, seq |-> 1,
          prev |-> current, current |-> current, delta |-> TmuxDelta_new(0)]
    ELSE StateUpdateFrom(agg, agg1, agg.prev_state[1], current,
                         ComputeDelta(agg.prev_state[1], current))

\* to_state_update: the aggregator afterwards and what was returned
\* (kind "None" for no update), with the snapshots and the delta it computed
to_state_update(agg, fetched) ==
    StateUpdateOf(agg, get_status_line(agg, fetched), to_tmux_state(agg, fetched))

(***************************************************************************)
(* What tmux sends to the monitor                                          *)
(***************************************************************************)
\* a line of the list-panes format
PaneLine(id, index, x, width, active, title, in_mode, window_id) ==
    <<id, index, x, "0", width, "4", "0", "0", active, "sh", title, in_mode,
      "0", "0", window_id, "", "0", "0", "", "">>

\* a line of the list-windows format
WindowLine(id, index, name, active) ==
    <<id, index, name, active, "", "", "">>

P0 == PaneLine("%0", "0", "0", "8", "1", "t", "0", "@0")

P0Title == PaneLine("%0", "0", "0", "8", "1", "u", "0", "@0")

P0Narrow == PaneLine("%0", "0", "0", "4", "1", "t", "0", "@0")

P0Mode == PaneLine("%0", "0", "0", "8", "1", "t", "1", "@0")

P1 == PaneLine("%1", "1", "8", "8", "0", "t", "0", "@0")

P2 == PaneLine("%2", "0", "0", "8", "1", "t", "0", "@1")

ListPanesOutputs ==
    { <<P0, P1>>, <<P0>>, <<P0Title, P1>>, <<P0Narrow, P1>>, <<P0, P1, P2>>,
      <<P0Mode, P1>>, <<P2>> }

ListWindowsOutputs ==
    { <<WindowLine("@0", "0", "main", "1")>>,
      <<WindowLine("@0", "0", "main", "1"), WindowLine("@1", "1", "__%0_group_1", "0")>>,
      <<WindowLine("@0", "0", "main", "0"), WindowLine("@1", "1", "main", "1")>> }

CaptureOutputs ==
    { << <<"a">> >>, << <<"a">>, <<"b">> >> }

\* the layouts of %layout-change: one pane of 4x4, and a split of two panes
Layouts ==
    {"c,4x4,0,0,0", "c,8x4,0,0{4x4,0,0,0,4x4,4,0,1}"}

Ev(type) == [type |-> type]

\* %output %0 Hi
OutputHi == [type |-> "Output", pane_id |-> "%0", content |-> <<"H", "i">>]

MonitorEvents ==
    {OutputHi,
     [type |-> "Output", pane_id |-> "%0", content |-> <<"a">>],
     [type |-> "Output", pane_id |-> "%0", content |-> <<"\r">>],
     [type |-> "Output", pane_id |-> "%1", content |-> <<"a">>]}
    \cup {[type |-> "LayoutChange", window_id |-> "@0", layout |-> l] : l \in Layouts}
    \cup {[type |-> "WindowAdd", window_id |-> "@1"]}
    \cup {[type |-> "WindowClose", window_id |-> w] : w \in WindowIds}
    \cup {[type |-> "WindowRenamed", window_id |-> "@1", name |-> n] : n \in WindowNames}
    \cup {[type |-> "WindowPaneChanged", window_id |-> "@0", pane_id |-> p] : p \in {"%0", "%1"}}
    \cup {[type |-> "SessionWindowChanged", window_id |-> w] : w \in WindowIds}
    \cup {Ev("PaneModeChanged"), Ev("SessionsChanged"), Ev("PopupOpen")}
    \cup {[type |-> "SessionRenamed", name |-> "work"]}
    \cup {[type |-> "PopupClose", popup_id |-> "popup0"]}
    \cup {[type |-> "Pause", pane_id |-> "%0"], [type |-> "Continue", pane_id |-> "%0"]}
    \cup {[type |-> "CommandResponse", output |-> o, success |-> TRUE] :
            o \in ListPanesOutputs \cup ListWindowsOutputs \cup CaptureOutputs \cup {<<>>}}
    \cup {[type |-> "CommandResponse", output |-> << <<"a">> >>, success |-> FALSE]}

(***************************************************************************)
(* TmuxMonitor::run, the event arm and the throttle timer, and the         *)
(* reconnect of start_monitoring_control_mode                              *)
(***************************************************************************)
AggInit ==
    /\ aggregator = StateAggregator_new
    /\ pending_output_emit = FALSE
    /\ lastSent = <<>>
    /\ lastUpdate = NoneV
    /\ seqLog = <<>>
    /\ lastEventType = "none"
    /\ lastListed = <<>>
    /\ reconnects = 0
    /\ steps = 0

\* the pane ids of the list-panes lines of an output
ListedPanes(output) ==
    {output[i][1] : i \in {j \in 1..Len(output) :
                            Len(output[j]) >= 11 /\ output[j][1] \in PaneIds}}

IsListPanesResponse(ev) ==
    ev.type = "CommandResponse" /\ ev.success /\ ListedPanes(ev.output) # {}

\* what capture_status_line can answer at the next to_tmux_state: it is only
\* asked when the status line is dirty
Fetchable(agg) ==
    IF agg.status_line_dirty THEN StatusLines ELSE {agg.cached_status_line}

\* emit_state(u): the update, if any, goes to the broadcast channel;
\* `before' are the commands the handler has sent to tmux by then
EmitUpdate(agg, u, before) ==
    /\ aggregator' = u.agg
    /\ lastUpdate' = Some([kind |-> u.kind, first |-> u.first, seq |-> u.seq,
                           seq_before |-> agg.delta_seq,
                           seq_after |-> u.agg.delta_seq,
                           prev_before |-> agg.prev_state,
                           prev_after |-> u.agg.prev_state,
                           prev |-> u.prev, current |-> u.current, delta |-> u.delta,
                           sent_before |-> before])
    /\ seqLog' = IF u.kind = "None" THEN seqLog ELSE Append(seqLog, u.seq)
    /\ pending_output_emit' = FALSE

\* emit_state(to_state_update())
EmitState(agg, fetched, before) ==
    EmitUpdate(agg, to_state_update(agg, fetched), before)

\* the commands the event arm sends before it comes to the emission: the
\* capture-pane batch, then the continue that answers a pause
SentFor(ev, r) ==
    [i \in 1..Len(r.panes_needing_refresh) |->
          <<"capture-pane", r.panes_needing_refresh[i]>>]
    \o (IF r.change_type = "FlowPause"
        THEN << <<"refresh-client -A continue", ev.pane_id>> >> ELSE <<>>)

\* the event arm once process_event has answered r: queue the captures,
\* answer a pause, and emit, or hold the emission back while throttled
Handle(ev, throttled, r, agg1) ==
    \E fetched \in Fetchable(r.agg) :
        /\ Len(aggregator.pending_captures) < MaxPending
        /\ lastSent' = SentFor(ev, r)
        /\ lastEventType' = IF IsListPanesResponse(ev) THEN "ListPanes" ELSE ev.type
        /\ lastListed' = IF IsListPanesResponse(ev)
                         THEN <<ListedPanes(ev.output)>>
                              \o (IF lastListed = <<>> THEN <<>> ELSE <<lastListed[1]>>)
                         ELSE lastListed
        /\ UNCHANGED reconnects
        /\ IF r.state_changed
           THEN IF r.change_type = "PaneOutput" /\ throttled
                THEN /\ aggregator' = agg1
                     /\ pending_output_emit' = TRUE
                     /\ UNCHANGED <<lastUpdate, seqLog>>
                ELSE EmitState(agg1, fetched, SentFor(ev, r))
           ELSE /\ aggregator' = agg1
                /\ UNCHANGED <<pending_output_emit, lastUpdate, seqLog>>

\* the event arm, for a bounded number of events
HandleEvent(ev, throttled, r, agg1) ==
    /\ steps < MaxEvents
    /\ steps' = steps + 1
    /\ Handle(ev, throttled, r, agg1)

\* the aggregator after the captures of the panes to refresh were queued
WithCaptures(r) ==
    IF r.panes_needing_refresh # <<>>
    THEN queue_captures(r.agg, r.panes_needing_refresh) ELSE r.agg

\* one event from the connection; `throttled' says that the output rate is
\* over the threshold and the throttle interval has not elapsed
MonitorEvent ==
    \E ev \in MonitorEvents :
    \E throttled \in (IF ev.type = "Output" THEN BOOLEAN ELSE {FALSE}) :
        HandleEvent(ev, throttled, process_event(aggregator, ev),
                    WithCaptures(process_event(aggregator, ev)))

\* a session in which pane %0 enters copy mode, is captured, receives
\* output and leaves copy mode
CopyModeEvents ==
    {OutputHi, [type |-> "Output", pane_id |-> "%0", content |-> <<"a">>]}
    \cup {[type |-> "CommandResponse", output |-> o, success |-> TRUE] :
            o \in {<<WindowLine("@0", "0", "main", "1")>>, <<P0Mode>>, <<P0>>}
                  \cup CaptureOutputs}

CopyModeEvent ==
    \E ev \in CopyModeEvents :
    \E throttled \in (IF ev.type = "Output" THEN BOOLEAN ELSE {FALSE}) :
        /\ steps < MaxCopyEvents
        /\ steps' = steps + 1
        /\ Handle(ev, throttled, process_event(aggregator, ev),
                  WithCaptures(process_event(aggregator, ev)))

\* the event arm over the events of one session, for a bounded number of them
SessionEvent(events, bound) ==
    \E ev \in events :
    \E throttled \in (IF ev.type = "Output" THEN BOOLEAN ELSE {FALSE}) :
        /\ steps < bound
        /\ steps' = steps + 1
        /\ Handle(ev, throttled, process_event(aggregator, ev),
                  WithCaptures(process_event(aggregator, ev)))

\* the reply to a client's `list-panes -F' with the first eleven fields only
P2Short == <<"%2", "0", "0", "0", "8", "4", "0", "0", "1", "sh", "t">>

\* a session in which a client's command lists a pane without its window
PaneLineEvents ==
    {[type |-> "Output", pane_id |-> p, content |-> <<"a">>] : p \in {"%0", "%2"}}
    \cup {[type |-> "CommandResponse", output |-> o, success |-> TRUE] :
            o \in {<<WindowLine("@0", "0", "main", "1")>>, <<P0, P1>>, <<P0>>,
                   <<P2Short>>, << <<"a">> >>}}

\* the throttle timer fires with an emission pending
ThrottleTimer ==
    \E fetched \in Fetchable(aggregator) :
        /\ pending_output_emit
        /\ EmitState(aggregator, fetched, <<>>)
        /\ lastEventType' = "ThrottleTimer"
        /\ UNCHANGED <<lastSent, lastListed, reconnects, steps>>

\* run() returned and the session is still registered: connect() builds a
\* new monitor with a new aggregator; the broadcast channel is the session's
MonitorReconnect ==
    /\ reconnects < MaxReconnects
    /\ reconnects' = reconnects + 1
    /\ aggregator' = StateAggregator_new
    /\ pending_output_emit' = FALSE
    /\ lastSent' = <<>>
    /\ lastEventType' = "Reconnect"
    /\ lastListed' = <<>>
    /\ UNCHANGED <<lastUpdate, seqLog, steps>>

(***************************************************************************)
(*                 SESSION REGISTRY AND MONITOR LIFECYCLE                  *)
(* One session name.  `sessions' is None or Some of the session's          *)
(* SessionConnections.  A monitor task is one run of                        *)
(* start_monitoring_control_mode; each successful TmuxMonitor::connect     *)
(* makes a new command channel, named by a number.  Times are in ms.       *)
(***************************************************************************)
ConnIds == 1..MaxConns

TaskIds == 1..MaxTasks

ClientSizes == {<<100, 40>>, <<80, 50>>}

\* the viewports of a large and a small client
ViewportsAB == {<<100, 40>>, <<80, 30>>}

INITIAL_PTY_COLS == 200

INITIAL_PTY_ROWS == 50

GRACEFUL_TIMEOUT_MS == 3000

CLEANUP_SLEEP_MS == 4000

INITIAL_BACKOFF_MS == 100

MAX_BACKOFF_MS == 10000

SessionConnections_new ==
    [connections |-> <<>>, client_sizes |-> <<>>, last_resize |-> NoneV,
     monitor_handle |-> NoneV, monitor_command_tx |-> NoneV]

MinOf(S) ==
    CHOOSE m \in S : \A n \in S : m <= n

compute_min_client_size(sizes) ==
    IF DOMAIN sizes = {} THEN <<80, 24>>
    ELSE <<MinOf({sizes[c][1] : c \in DOMAIN sizes}),
           MinOf({sizes[c][2] : c \in DOMAIN sizes})>>

\* Vec::retain(|&id| id != conn_id)
Without(seq, conn_id) ==
    SelectSeq(seq, LAMBDA id : id # conn_id)

ResizeWindow(size) ==
    [cmd |-> "ResizeWindow", cols |-> size[1], rows |-> size[2]]

Shutdown ==
    [cmd |-> "Shutdown", cols |-> 0, rows |-> 0]

\* a monitor task before it is spawned
NoTask ==
    [pc |-> "unborn", chan |-> 0, backoff |-> INITIAL_BACKOFF_MS,
     detach_sent |-> FALSE, kill_sent |-> FALSE, child_alive |-> FALSE,
     shutdown_seen |-> FALSE, remaining |-> 0, waited |-> 0]

\* the task's TmuxMonitor exists: its command receiver is alive
HasMonitor(task) ==
    task.pc \in {"store", "sync", "run", "closing", "clear"}

ReceiverAlive(ch) ==
    \E t \in TaskIds : tasks[t].chan = ch /\ HasMonitor(tasks[t])

\* the senders of a channel: the registry's and the clones operations hold
SenderHeld(ch) ==
    \/ IsSome(sessions) /\ sessions[1].monitor_command_tx = Some(ch)
    \/ \E c \in ConnIds : IsSome(sizeOp[c]) /\ sizeOp[c][1].tx = Some(ch)
    \/ \E c \in ConnIds : IsSome(cleanupOp[c]) /\ cleanupOp[c][1].cmd_tx = Some(ch)

\* mpsc::Sender::send: the command is queued when the receiver is alive
SendTo(ch, command) ==
    IF ReceiverAlive(ch) THEN [inbox EXCEPT ![ch] = Append(@, command)] ELSE inbox

RegInit ==
    /\ sessions = NoneV
    /\ next_conn_id = 1
    /\ clientPhase = [c \in ConnIds |-> "new"]
    /\ sizeOp = [c \in ConnIds |-> NoneV]
    /\ cleanupOp = [c \in ConnIds |-> NoneV]
    /\ tasks = [t \in TaskIds |-> NoTask]
    /\ spawned = 0
    /\ next_chan = 1
    /\ inbox = [ch \in 1..MaxChans |-> <<>>]
    /\ tmuxResize = NoneV
    /\ lastCleanup = NoneV
    /\ lastResizeSend = NoneV

(***************************************************************************)
(* The client side: sse_handler, set_client_size, cleanup_connection       *)
(***************************************************************************)
\* sse_handler, up to the end of its registry lock section
Attach ==
    /\ next_conn_id <= MaxConns
    /\ LET conn_id == next_conn_id
           session_conns == IF IsSome(sessions) THEN sessions[1]
                            ELSE SessionConnections_new
           starts == session_conns.monitor_handle = NoneV
       IN  /\ starts => spawned < MaxTasks
           /\ next_conn_id' = next_conn_id + 1
           /\ clientPhase' = [clientPhase EXCEPT ![conn_id] = "attached"]
           /\ sessions' = Some([session_conns EXCEPT
                    !.connections = Append(@, conn_id),
                    !.monitor_handle = IF starts THEN Some(spawned + 1) ELSE @])
           /\ spawned' = IF starts THEN spawned + 1 ELSE spawned
           /\ tasks' = IF starts
                       THEN [tasks EXCEPT ![spawned + 1] = [NoTask EXCEPT !.pc = "check"]]
                       ELSE tasks
    /\ UNCHANGED <<sizeOp, cleanupOp, next_chan, inbox, tmuxResize, lastCleanup, lastResizeSend>>

\* set_client_size, its lock section: store the size, compare the minimum
\* with last_resize, and return or carry (min, command_tx) out of the lock
SetClientSize(conn_id, size) ==
    /\ clientPhase[conn_id] = "attached"
    /\ sizeOp[conn_id] = NoneV
    /\ IsSome(sessions)
    /\ LET sizes == Put(sessions[1].client_sizes, conn_id, size)
           min == compute_min_client_size(sizes)
       IN  IF sessions[1].last_resize = Some(min)
           THEN /\ sessions' = Some([sessions[1] EXCEPT !.client_sizes = sizes])
                /\ UNCHANGED sizeOp
           ELSE /\ sessions' = Some([sessions[1] EXCEPT !.client_sizes = sizes,
                                                        !.last_resize = Some(min)])
                /\ sizeOp' = [sizeOp EXCEPT ![conn_id] =
                        Some([min |-> min, tx |-> sessions[1].monitor_command_tx,
                              repeats |-> sessions[1].last_resize = Some(min)])]
    /\ UNCHANGED <<next_conn_id, clientPhase, cleanupOp, tasks, spawned, next_chan,
                   inbox, tmuxResize, lastCleanup, lastResizeSend>>

\* set_client_size, after the lock: send ResizeWindow to the monitor, fall
\* back to executor::resize_window when the send fails, skip with no channel
SetClientSizeSend(conn_id) ==
    /\ IsSome(sizeOp[conn_id])
    /\ LET op == sizeOp[conn_id][1] IN
       IF IsSome(op.tx)
       THEN IF ReceiverAlive(op.tx[1])
            THEN /\ Len(inbox[op.tx[1]]) < MaxInbox
                 /\ inbox' = SendTo(op.tx[1], ResizeWindow(op.min))
                 /\ lastResizeSend' = Some([by |-> "set_client_size",
                                            repeats |-> op.repeats])
                 /\ UNCHANGED tmuxResize
            ELSE /\ tmuxResize' = Some(op.min)
                 /\ UNCHANGED <<inbox, lastResizeSend>>
       ELSE UNCHANGED <<inbox, tmuxResize, lastResizeSend>>
    /\ sizeOp' = [sizeOp EXCEPT ![conn_id] = NoneV]
    /\ UNCHANGED <<sessions, next_conn_id, clientPhase, cleanupOp, tasks, spawned,
                   next_chan, lastCleanup>>

\* cleanup_connection, its lock section
CleanupConnection(conn_id) ==
    /\ clientPhase[conn_id] = "attached"
    /\ sizeOp[conn_id] = NoneV
    /\ IsSome(sessions)
    /\ LET session_conns == sessions[1]
           connections == Without(session_conns.connections, conn_id)
           had_size == conn_id \in DOMAIN session_conns.client_sizes
           sizes == Restrict(session_conns.client_sizes,
                             DOMAIN session_conns.client_sizes \ {conn_id})
           new_min == compute_min_client_size(sizes)
       IN  IF connections = <<>>
           THEN /\ sessions' = NoneV
                /\ cleanupOp' = [cleanupOp EXCEPT ![conn_id] =
                        Some([step |-> "stop", resize_to |-> NoneV,
                              cmd_tx |-> session_conns.monitor_command_tx,
                              handle |-> session_conns.monitor_handle,
                              repeats |-> FALSE,
                              sent |-> FALSE, remaining |-> 0, slept |-> 0])]
                /\ clientPhase' = [clientPhase EXCEPT ![conn_id] = "cleanup"]
           ELSE IF had_size /\ DOMAIN sizes # {}
           THEN /\ sessions' = Some([session_conns EXCEPT
                        !.connections = connections, !.client_sizes = sizes,
                        !.last_resize = Some(new_min)])
                /\ cleanupOp' = [cleanupOp EXCEPT ![conn_id] =
                        Some([step |-> "resize", resize_to |-> Some(new_min),
                              cmd_tx |-> session_conns.monitor_command_tx,
                              handle |-> NoneV,
                              repeats |-> session_conns.last_resize = Some(new_min),
                              sent |-> FALSE, remaining |-> 0, slept |-> 0])]
                /\ clientPhase' = [clientPhase EXCEPT ![conn_id] = "cleanup"]
           ELSE /\ sessions' = Some([session_conns EXCEPT
                        !.connections = connections, !.client_sizes = sizes])
                /\ UNCHANGED cleanupOp
                /\ clientPhase' = [clientPhase EXCEPT ![conn_id] = "gone"]
    /\ UNCHANGED <<next_conn_id, sizeOp, tasks, spawned, next_chan, inbox,
                   tmuxResize, lastCleanup, lastResizeSend>>

\* cleanup_connection, after the lock, last client: send Shutdown when a
\* command channel was stored and then sleep; with no channel go on at once
CleanupStopMonitor(conn_id) ==
    /\ IsSome(cleanupOp[conn_id])
    /\ cleanupOp[conn_id][1].step = "stop"
    /\ LET op == cleanupOp[conn_id][1] IN
       IF IsSome(op.handle) /\ IsSome(op.cmd_tx)
       THEN /\ ReceiverAlive(op.cmd_tx[1]) => Len(inbox[op.cmd_tx[1]]) < MaxInbox
            /\ inbox' = SendTo(op.cmd_tx[1], Shutdown)
            /\ cleanupOp' = [cleanupOp EXCEPT ![conn_id] =
                    Some([op EXCEPT !.step = "sleep", !.sent = TRUE,
                                    !.remaining = CLEANUP_SLEEP_MS])]
       ELSE /\ cleanupOp' = [cleanupOp EXCEPT ![conn_id] =
                    Some([op EXCEPT !.step = "finish"])]
            /\ UNCHANGED inbox
    /\ UNCHANGED <<sessions, next_conn_id, clientPhase, sizeOp, tasks, spawned,
                   next_chan, tmuxResize, lastCleanup, lastResizeSend>>

\* JoinHandle::is_finished
is_finished(handle) ==
    tasks[handle].pc = "done"

\* what cleanup_connection does with a monitor task that has not finished
\* after the sleep: it logs, and leaves the task alone
AbortUnfinished(handle) ==
    FALSE

\* cleanup_connection, last client, after the sleep: look at the handle
CleanupFinish(conn_id) ==
    /\ IsSome(cleanupOp[conn_id])
    /\ LET op == cleanupOp[conn_id][1] IN
       /\ \/ op.step = "finish"
          \/ op.step = "sleep" /\ op.remaining = 0
       /\ LET aborts == IsSome(op.handle) /\ ~is_finished(op.handle[1])
                            /\ AbortUnfinished(op.handle[1])
          IN  /\ tasks' = IF aborts
                          THEN [tasks EXCEPT ![op.handle[1]].pc = "done"]
                          ELSE tasks
              /\ lastCleanup' = Some([conn_id |-> conn_id, handle |-> op.handle,
                                      sent |-> op.sent, slept |-> op.slept,
                                      finished |-> IsSome(op.handle)
                                                   /\ is_finished(op.handle[1]),
                                      aborted |-> aborts])
    /\ cleanupOp' = [cleanupOp EXCEPT ![conn_id] = NoneV]
    /\ clientPhase' = [clientPhase EXCEPT ![conn_id] = "gone"]
    /\ UNCHANGED <<sessions, next_conn_id, sizeOp, spawned, next_chan, inbox,
                   tmuxResize, lastResizeSend>>

\* cleanup_connection, after the lock, other clients remain: resize to their
\* minimum through the monitor (a failed send is ignored), or through
\* executor::resize_window when no command channel was stored
CleanupResize(conn_id) ==
    /\ IsSome(cleanupOp[conn_id])
    /\ cleanupOp[conn_id][1].step = "resize"
    /\ LET op == cleanupOp[conn_id][1] IN
       IF IsSome(op.cmd_tx)
       THEN /\ ReceiverAlive(op.cmd_tx[1]) => Len(inbox[op.cmd_tx[1]]) < MaxInbox
            /\ inbox' = SendTo(op.cmd_tx[1], ResizeWindow(op.resize_to[1]))
            /\ lastResizeSend' = Some([by |-> "cleanup_connection",
                                       repeats |-> op.repeats])
            /\ UNCHANGED tmuxResize
       ELSE /\ tmuxResize' = op.resize_to
            /\ UNCHANGED <<inbox, lastResizeSend>>
    /\ cleanupOp' = [cleanupOp EXCEPT ![conn_id] = NoneV]
    /\ clientPhase' = [clientPhase EXCEPT ![conn_id] = "gone"]
    /\ UNCHANGED <<sessions, next_conn_id, sizeOp, tasks, spawned, next_chan,
                   lastCleanup>>

(***************************************************************************)
(* The monitor task: start_monitoring_control_mode, TmuxMonitor::run and   *)
(* ControlModeConnection::graceful_close                                   *)
(***************************************************************************)
\* the head of the loop: stop when the registry has no entry for the session
MonitorCheck(t) ==
    /\ tasks[t].pc = "check"
    /\ tasks' = [tasks EXCEPT ![t].pc = IF IsSome(sessions) THEN "connect" ELSE "done"]
    /\ UNCHANGED <<sessions, next_conn_id, clientPhase, sizeOp, cleanupOp, spawned,
                   next_chan, inbox, tmuxResize, lastCleanup, lastResizeSend>>

\* TmuxMonitor::connect: a new child process and a new command channel, or
\* an error, after which the task sleeps for the backoff
TryConnect(t, ok) ==
    /\ tasks[t].pc = "connect"
    /\ IF ok
       THEN /\ next_chan <= MaxChans
            /\ tasks' = [tasks EXCEPT ![t] =
                    [NoTask EXCEPT !.pc = "store", !.chan = next_chan,
                                   !.backoff = tasks[t].backoff,
                                   !.child_alive = TRUE]]
            /\ next_chan' = next_chan + 1
       ELSE /\ tasks' = [tasks EXCEPT ![t].pc = "sleep"]
            /\ UNCHANGED next_chan
    /\ UNCHANGED <<sessions, next_conn_id, clientPhase, sizeOp, cleanupOp, spawned,
                   inbox, tmuxResize, lastCleanup, lastResizeSend>>

\* the connect step with at most MaxBackoffs failures in a row
MonitorConnect(t, ok) ==
    /\ ~ok => tasks[t].backoff < INITIAL_BACKOFF_MS * (2 ^ MaxBackoffs)
    /\ TryConnect(t, ok)

\* store command_tx in the registry entry, or stop when the entry is gone
MonitorStore(t) ==
    /\ tasks[t].pc = "store"
    /\ IF IsSome(sessions)
       THEN /\ sessions' = Some([sessions[1] EXCEPT
                                    !.monitor_command_tx = Some(tasks[t].chan)])
            /\ tasks' = [tasks EXCEPT ![t].pc = "sync",
                                      ![t].backoff = INITIAL_BACKOFF_MS]
       ELSE /\ tasks' = [tasks EXCEPT ![t].pc = "done"]
            /\ UNCHANGED sessions
    /\ UNCHANGED <<next_conn_id, clientPhase, sizeOp, cleanupOp, spawned, next_chan,
                   inbox, tmuxResize, lastCleanup, lastResizeSend>>

\* run, before its loop: sync_initial_state resizes the session's window
MonitorSync(t) ==
    /\ tasks[t].pc = "sync"
    /\ tmuxResize' = Some(<<INITIAL_PTY_COLS, INITIAL_PTY_ROWS>>)
    /\ tasks' = [tasks EXCEPT ![t].pc = "run"]
    /\ UNCHANGED <<sessions, next_conn_id, clientPhase, sizeOp, cleanupOp, spawned,
                   next_chan, inbox, lastCleanup, lastResizeSend>>

\* graceful_close, its start: detach-client is sent, the wait begins
graceful_close(task) ==
    [task EXCEPT !.pc = "closing", !.shutdown_seen = TRUE, !.detach_sent = TRUE,
                 !.remaining = GRACEFUL_TIMEOUT_MS, !.waited = 0]

\* run, the command arm: a command from the channel
MonitorCommand(t) ==
    /\ tasks[t].pc = "run"
    /\ inbox[tasks[t].chan] # <<>>
    /\ LET cmd == Head(inbox[tasks[t].chan]) IN
       /\ inbox' = [inbox EXCEPT ![tasks[t].chan] = Tail(@)]
       /\ IF cmd.cmd = "ResizeWindow"
          THEN /\ tmuxResize' = Some(<<cmd.cols, cmd.rows>>)
               /\ UNCHANGED tasks
          ELSE /\ tasks' = [tasks EXCEPT ![t] = graceful_close(@)]
               /\ UNCHANGED tmuxResize
    /\ UNCHANGED <<sessions, next_conn_id, clientPhase, sizeOp, cleanupOp, spawned,
                   next_chan, lastCleanup, lastResizeSend>>

\* run, the command arm: recv answers None when every sender is dropped
MonitorChannelClosed(t) ==
    /\ tasks[t].pc = "run"
    /\ inbox[tasks[t].chan] = <<>>
    /\ ~SenderHeld(tasks[t].chan)
    /\ tasks' = [tasks EXCEPT ![t].pc = "clear"]
    /\ UNCHANGED <<sessions, next_conn_id, clientPhase, sizeOp, cleanupOp, spawned,
                   next_chan, inbox, tmuxResize, lastCleanup, lastResizeSend>>

\* run, the event arm: the connection to tmux closed (Exit, or end of events)
MonitorConnectionClosed(t) ==
    /\ tasks[t].pc = "run"
    /\ tasks' = [tasks EXCEPT ![t].pc = "clear", ![t].child_alive = FALSE]
    /\ UNCHANGED <<sessions, next_conn_id, clientPhase, sizeOp, cleanupOp, spawned,
                   next_chan, inbox, tmuxResize, lastCleanup, lastResizeSend>>

\* graceful_close, the wait answers: the child process exited in time
ChildExited(t) ==
    /\ tasks[t].pc = "closing"
    /\ tasks[t].remaining > 0
    /\ tasks' = [tasks EXCEPT ![t].pc = "clear", ![t].child_alive = FALSE]
    /\ UNCHANGED <<sessions, next_conn_id, clientPhase, sizeOp, cleanupOp, spawned,
                   next_chan, inbox, tmuxResize, lastCleanup, lastResizeSend>>

\* a timeout arm that falls back to killing the child
TimeoutArmKills(task) ==
    [task EXCEPT !.pc = "clear", !.kill_sent = TRUE]

\* graceful_close, the timeout arm: it logs, the child is left running
TimeoutArm(task) ==
    [task EXCEPT !.pc = "clear"]

GracefulCloseTimeout(t) ==
    /\ tasks[t].pc = "closing"
    /\ tasks[t].remaining = 0
    /\ tasks' = [tasks EXCEPT ![t] = TimeoutArm(@)]
    /\ UNCHANGED <<sessions, next_conn_id, clientPhase, sizeOp, cleanupOp, spawned,
                   next_chan, inbox, tmuxResize, lastCleanup, lastResizeSend>>

\* after run returned: clear the stored command_tx of the session's entry;
\* the monitor (and its command receiver) is dropped
MonitorClear(t) ==
    /\ tasks[t].pc = "clear"
    /\ sessions' = IF IsSome(sessions)
                   THEN Some([sessions[1] EXCEPT !.monitor_command_tx = NoneV])
                   ELSE sessions
    /\ inbox' = [inbox EXCEPT ![tasks[t].chan] = <<>>]
    /\ tasks' = [tasks EXCEPT ![t].pc = "sleep"]
    /\ UNCHANGED <<next_conn_id, clientPhase, sizeOp, cleanupOp, spawned, next_chan,
                   tmuxResize, lastCleanup, lastResizeSend>>

\* a doubling with no cap
Min2Uncapped(a, b) ==
    a

Min2(a, b) ==
    IF a <= b THEN a ELSE b

\* the end of the backoff sleep (the length of this sleep is not timed)
MonitorWake(t) ==
    /\ tasks[t].pc = "sleep"
    /\ tasks' = [tasks EXCEPT ![t].pc = "check",
                              ![t].backoff = Min2(@ * 2, MAX_BACKOFF_MS)]
    /\ UNCHANGED <<sessions, next_conn_id, clientPhase, sizeOp, cleanupOp, spawned,
                   next_chan, inbox, tmuxResize, lastCleanup, lastResizeSend>>

(***************************************************************************)
(* Time: the timers that run are the 3 s wait of graceful_close and the    *)
(* sleep of cleanup_connection.  Time passes up to the next expiry; an     *)
(* expired timer fires before time passes again.                           *)
(***************************************************************************)
RunningTimers ==
    {tasks[t].remaining : t \in {u \in TaskIds : tasks[u].pc = "closing"}}
    \cup {cleanupOp[c][1].remaining :
            c \in {d \in ConnIds : IsSome(cleanupOp[d]) /\ cleanupOp[d][1].step = "sleep"}}

Tick ==
    /\ RunningTimers # {}
    /\ 0 \notin RunningTimers
    /\ LET d == MinOf(RunningTimers) IN
       /\ tasks' = [t \in TaskIds |->
                IF tasks[t].pc = "closing"
                THEN [tasks[t] EXCEPT !.remaining = @ - d, !.waited = @ + d]
                ELSE tasks[t]]
       /\ cleanupOp' = [c \in ConnIds |->
                IF IsSome(cleanupOp[c]) /\ cleanupOp[c][1].step = "sleep"
                THEN Some([cleanupOp[c][1] EXCEPT !.remaining = @ - d, !.slept = @ + d])
                ELSE cleanupOp[c]]
    /\ UNCHANGED <<sessions, next_conn_id, clientPhase, sizeOp, spawned, next_chan,
                   inbox, tmuxResize, lastCleanup, lastResizeSend>>

(***************************************************************************)
(*            THE EMISSION THROTTLE OF TmuxMonitor::run                    *)
(* The loop's throttle state, with the time in ms.  An event is what       *)
(* process_event answered for it: no state change, a PaneOutput change, or *)
(* another change; `has_update' says whether to_state_update returned an   *)
(* update.  At most one event is received per millisecond.                 *)
(***************************************************************************)
THROTTLE_INTERVAL_MS == 16

THROTTLE_THRESHOLD == 20

RATE_WINDOW_MS == 100

ChangeTypes == {"None", "PaneOutput", "Other"}

NoIter ==
    [arm |-> "none", change |-> "None", engaged |-> FALSE, pending |-> FALSE,
     called |-> FALSE, emitted |-> FALSE]

LoopInit ==
    /\ clock = 0
    /\ throttle = [last_output_emit |-> 0 - THROTTLE_INTERVAL_MS,
                   pending_output_emit |-> FALSE,
                   rate_window_start |-> 0,
                   rate_event_count |-> 0]
    /\ arrived = "none"
    /\ steady = TRUE
    /\ emissions = 0
    /\ lastIter = NoIter

\* the rate tracking of an output change received at time t
RateTracked(th, t) ==
    IF t - th.rate_window_start > RATE_WINDOW_MS
    THEN [th EXCEPT !.rate_window_start = t, !.rate_event_count = 1]
    ELSE [th EXCEPT !.rate_event_count = @ + 1]

\* a rule that holds back every change while the rate is over the threshold
EmitsAtOnceOutputRule(change, count, elapsed) ==
    count <= THROTTLE_THRESHOLD \/ elapsed >= THROTTLE_INTERVAL_MS

\* whether a state change is emitted in the iteration that received it:
\* an output change over the threshold waits for the throttle interval
EmitsAtOnce(change, count, elapsed) ==
    \/ change # "PaneOutput"
    \/ count <= THROTTLE_THRESHOLD
    \/ elapsed >= THROTTLE_INTERVAL_MS

\* emit_state(to_state_update()), and the two assignments after it
Emitted(th, t) ==
    [th EXCEPT !.last_output_emit = t, !.pending_output_emit = FALSE]

\* the event arm from `if result.state_changed' on
LoopEvent(change, has_update) ==
    /\ arrived = "none"
    /\ LET th == IF change = "PaneOutput" THEN RateTracked(throttle, clock) ELSE throttle
           emits == EmitsAtOnce(change, th.rate_event_count, clock - th.last_output_emit)
       IN  /\ throttle' = IF change = "None" THEN throttle
                          ELSE IF emits THEN Emitted(th, clock)
                          ELSE [th EXCEPT !.pending_output_emit = TRUE]
           /\ emissions' = IF change # "None" /\ emits /\ has_update /\ steady
                           THEN emissions + 1 ELSE emissions
           /\ lastIter' = [arm |-> "event", change |-> change,
                           engaged |-> throttle.rate_event_count > THROTTLE_THRESHOLD,
                           pending |-> throttle.pending_output_emit,
                           called |-> change # "None" /\ emits,
                           emitted |-> change # "None" /\ emits /\ has_update]
    /\ arrived' = IF change = "PaneOutput" THEN "output" ELSE "other"
    /\ UNCHANGED <<clock, steady>>

\* a throttle timer that is never armed
TimerNeverDue ==
    FALSE

\* throttle_sleep has run out: the loop's timer arm can be taken
TimerDue ==
    /\ throttle.pending_output_emit
    /\ \/ throttle.rate_event_count <= THROTTLE_THRESHOLD
       \/ clock - throttle.last_output_emit >= THROTTLE_INTERVAL_MS

\* the throttle timer arm
LoopTimer(has_update) ==
    /\ TimerDue
    /\ throttle' = Emitted(throttle, clock)
    /\ emissions' = IF has_update /\ steady THEN emissions + 1 ELSE emissions
    /\ lastIter' = [arm |-> "timer", change |-> "None",
                    engaged |-> throttle.rate_event_count > THROTTLE_THRESHOLD,
                    pending |-> TRUE, called |-> TRUE, emitted |-> has_update]
    /\ UNCHANGED <<clock, arrived, steady>>

\* a millisecond passes; a timer that is due fires first
LoopTick ==
    /\ clock < MaxTime
    /\ ~TimerDue
    /\ clock' = clock + 1
    /\ arrived' = "none"
    /\ steady' = (steady /\ arrived = "output")
    /\ emissions' = IF steady /\ arrived = "output" THEN emissions ELSE 0
    /\ lastIter' = NoIter
    /\ UNCHANGED throttle

\* the timer arm, whatever to_state_update answers
LoopTimerFires ==
    \E has_update \in BOOLEAN : LoopTimer(has_update)

\* a millisecond passes, up to LiveTime
LoopTickLive ==
    /\ clock < LiveTime
    /\ LoopTick
(***************************************************************************)
(*          THE SESSION'S BROADCAST CHANNEL AND THE CLIENT STREAMS         *)
(* The messages of the session's state_tx are numbered 1, 2, ... in the    *)
(* order they were sent; the channel retains the last CHANNEL_CAPACITY of  *)
(* them.  A receiver's cursor is the number of the last message it is      *)
(* past.  The monitor's state updates are the messages.                    *)
(***************************************************************************)
CHANNEL_CAPACITY == 100

\* a connection before sse_handler has run for it
NoRx ==
    [subscribed |-> FALSE, cursor |-> 0, log |-> <<>>, open |-> FALSE,
     lagged |-> FALSE, last |-> "none"]

StreamInit ==
    /\ bsent = 0
    /\ fulls = {}
    /\ rx = [c \in ConnIds |-> NoRx]

\* sse_handler: state_tx.subscribe() under the registry lock; the stream is
\* built and returned.  The connection ids are given out in order.
StreamSubscribe(c) ==
    /\ ~rx[c].subscribed
    /\ \A d \in ConnIds : d < c => rx[d].subscribed
    /\ rx' = [rx EXCEPT ![c] = [NoRx EXCEPT !.subscribed = TRUE, !.cursor = bsent,
                                            !.open = TRUE]]
    /\ UNCHANGED <<bsent, fulls>>

\* the stream's first yield
StreamYieldInfo(c) ==
    /\ rx[c].open
    /\ rx[c].log = <<>>
    /\ rx' = [rx EXCEPT ![c].log = <<"connection-info">>]
    /\ UNCHANGED <<bsent, fulls>>

\* the stream's second yield
StreamYieldKeys(c) ==
    /\ rx[c].open
    /\ rx[c].log = <<"connection-info">>
    /\ rx' = [rx EXCEPT ![c].log = Append(@, "keybindings")]
    /\ UNCHANGED <<bsent, fulls>>

\* the number before the oldest message the channel retains
Oldest ==
    IF bsent > CHANNEL_CAPACITY THEN bsent - CHANNEL_CAPACITY ELSE 0

\* a stream that ends when its receiver lagged
AfterLaggedBreak(r, oldest) ==
    [r EXCEPT !.cursor = oldest, !.lagged = TRUE, !.last = "Lagged", !.open = FALSE]

\* recv answered Err(Lagged(n)): the receiver is moved to the oldest
\* retained message; the stream logs and goes on with its loop
AfterLagged(r, oldest) ==
    [r EXCEPT !.cursor = oldest, !.lagged = TRUE, !.last = "Lagged"]

\* recv answered Ok(msg): the message is yielded as an event of its type;
\* the log keeps the first three events of the stream
AfterOk(r, kind) ==
    [r EXCEPT !.cursor = @ + 1, !.last = "Ok",
              !.log = IF Len(@) = 2 THEN Append(@, kind) ELSE @]

\* one pass of the stream's loop: session_rx.recv() and its match
StreamRecv(c) ==
    /\ rx[c].open
    /\ Len(rx[c].log) >= 2
    /\ rx[c].cursor < bsent
    /\ rx' = [rx EXCEPT ![c] =
                IF rx[c].cursor < Oldest
                THEN AfterLagged(rx[c], Oldest)
                ELSE AfterOk(rx[c], IF (rx[c].cursor + 1) \in fulls
                                    THEN "state-update Full"
                                    ELSE "state-update Delta")]
    /\ UNCHANGED <<bsent, fulls>>

\* the monitor's emit_state(to_state_update()): the first update of the
\* aggregator is a Full, a later one a Full or a Delta (only the first
\* MaxVaried updates after the first vary, the rest are Deltas); at most
\* `max' updates are sent
MonitorEmit(full, max) ==
    /\ \E c \in ConnIds : rx[c].subscribed
    /\ bsent < max
    /\ bsent = 0 => full
    /\ bsent > MaxVaried => ~full
    /\ bsent' = bsent + 1
    /\ fulls' = IF full THEN fulls \cup {bsent + 1} ELSE fulls
    /\ UNCHANGED rx

(***************************************************************************)
(*                        THE COMMAND ENDPOINT                             *)
(* commands_handler and handle_command for run_tmux_command, resize_window *)
(* and ping, and the monitor's command arm.  A tmux command line is a      *)
(* sequence of pieces: words, blanks and the separators " ; " and " \; ".  *)
(***************************************************************************)
Tokens == {"tokA", "tokB"}

CommandNames == {"run_tmux_command", "resize_window", "ping", "frobnicate"}

RawCommands ==
    { <<"resize-window", " -x 10 -y 10">>,
      <<"resizew", " -x 10 -y 10">>,
      <<" ", "resize-window", " -x 10 -y 10">>,
      <<"neww">>,
      <<"neww", " \\; ", "resizew", " -x 10 -y 10">>,
      <<>> }

\* str::starts_with, for a prefix that is one piece
starts_with(command, prefix) ==
    command # <<>> /\ command[1] = prefix

\* str::replace(" \\; ", " ; ")
Unescaped(command) ==
    [i \in DOMAIN command |-> IF command[i] = " \\; " THEN " ; " ELSE command[i]]

RunCommand(command) ==
    [cmd |-> "RunCommand", command |-> command]

Response(code, result, error) ==
    [code |-> code, result |-> result, error |-> error]

CmdInit ==
    /\ sse_tokens = {}
    /\ has_tx = FALSE
    /\ cmdq = <<>>
    /\ tmuxIn = NoneV
    /\ requests = 0
    /\ lastRequest = NoneV
    /\ reply = NoneV

\* sse_handler stores the token of a new stream
TokenInsert(tok) ==
    /\ tok \notin sse_tokens
    /\ sse_tokens' = sse_tokens \cup {tok}
    /\ UNCHANGED <<has_tx, cmdq, tmuxIn, requests, lastRequest, reply>>

\* cleanup_connection removes the token of a dropped stream
TokenRemove(tok) ==
    /\ tok \in sse_tokens
    /\ sse_tokens' = sse_tokens \ {tok}
    /\ UNCHANGED <<has_tx, cmdq, tmuxIn, requests, lastRequest, reply>>

\* the monitor task stored its command_tx in the session's entry
CommandTxStored ==
    /\ ~has_tx
    /\ has_tx' = TRUE
    /\ UNCHANGED <<sse_tokens, cmdq, tmuxIn, requests, lastRequest, reply>>

\* the monitor returned: the entry's command_tx is cleared, the receiver
\* and what was queued for it are dropped
CommandTxCleared ==
    /\ has_tx
    /\ has_tx' = FALSE
    /\ cmdq' = <<>>
    /\ UNCHANGED <<sse_tokens, tmuxIn, requests, lastRequest, reply>>

\* the check of run_tmux_command that stops a raw resize
IsBlockedResize(command) ==
    starts_with(command, "resize-window") \/ starts_with(command, "resizew")

\* handle_command: what it answers, Ok(result) or Err(error), and what it
\* sends to the monitor or runs through the executor
handle_command(cmd, command) ==
    IF cmd = "run_tmux_command"
    THEN IF IsBlockedResize(command)
         THEN [ok |-> TRUE, value |-> "null", send |-> NoneV, exec |-> NoneV]
         ELSE IF has_tx
         THEN [ok |-> TRUE, value |-> "null", send |-> Some(RunCommand(command)),
               exec |-> NoneV]
         ELSE [ok |-> FALSE, value |-> <<"No monitor connection available">>,
               send |-> NoneV, exec |-> NoneV]
    ELSE IF cmd = "resize_window"
    THEN IF has_tx
         THEN [ok |-> TRUE, value |-> "success", send |-> Some(ResizeWindow(<<80, 24>>)),
               exec |-> NoneV]
         ELSE [ok |-> TRUE, value |-> "success", send |-> NoneV,
               exec |-> Some(<<"resize-window", " -x 80 -y 24">>)]
    ELSE IF cmd = "ping"
    THEN [ok |-> TRUE, value |-> "null", send |-> NoneV, exec |-> NoneV]
    ELSE [ok |-> FALSE, value |-> <<"Unknown command: ", cmd>>,
          send |-> NoneV, exec |-> NoneV]

\* commands_handler: the token checks, handle_command, and the response
commands_handler(token, cmd, command) ==
    /\ requests < MaxRequests
    /\ requests' = requests + 1
    /\ lastRequest' = Some([token |-> token, cmd |-> cmd, command |-> command])
    /\ UNCHANGED <<sse_tokens, has_tx>>
    /\ IF token = NoneV
       THEN /\ reply' = Some(Response(401, NoneV,
                                      Some(<<"Missing X-Session-Token header">>)))
            /\ UNCHANGED <<cmdq, tmuxIn>>
       ELSE IF token[1] \notin sse_tokens
       THEN /\ reply' = Some(Response(401, NoneV, Some(<<"Invalid session token">>)))
            /\ UNCHANGED <<cmdq, tmuxIn>>
       ELSE LET r == handle_command(cmd, command) IN
            /\ IsSome(r.send) => Len(cmdq) < MaxInbox
            /\ cmdq' = IF IsSome(r.send) THEN Append(cmdq, r.send[1]) ELSE cmdq
            /\ tmuxIn' = IF IsSome(r.exec)
                         THEN Some([via |-> "executor", line |-> r.exec[1]])
                         ELSE tmuxIn
            /\ reply' = IF r.ok
                        THEN Some(Response(200, Some(r.value), NoneV))
                        ELSE Some(Response(400, NoneV, Some(r.value)))

\* TmuxMonitor::run, the command arm: RunCommand and ResizeWindow are
\* written to tmux
MonitorCommandArm ==
    /\ cmdq # <<>>
    /\ LET c == Head(cmdq) IN
       tmuxIn' = IF c.cmd = "RunCommand"
                 THEN Some([via |-> "RunCommand", line |-> Unescaped(c.command)])
                 ELSE Some([via |-> "ResizeWindow",
                            line |-> <<"resizew", " -x 80 -y 24">>])
    /\ cmdq' = Tail(cmdq)
    /\ UNCHANGED <<sse_tokens, has_tx, requests, lastRequest, reply>>

(***************************************************************************)
(* The content of %output: tmux's octal escapes, the reader task's line    *)
(* and decode_octal (octal.rs, connection.rs:40-70, parser.rs:336-352).    *)
(* A byte is a number in 0..255, a line or a str is the sequence of its    *)
(* (UTF-8) bytes.                                                          *)
(***************************************************************************)
BACKSLASH == 92

SPACE == 32

DIGIT_0 == 48

REPLACEMENT_CHARACTER == <<239, 191, 189>>

\* the bytes of "%output " and of the pane id "%0"
OUTPUT_PREFIX == <<37, 111, 117, 116, 112, 117, 116, 32>>

PANE_ID_0 == <<37, 48>>

\* the bytes a pane writes: ESC, backslash, space, '0', 'A', the two bytes of
\* U+00E9 and 0xFF
RawBytes == {27, 92, 32, 48, 65, 195, 169, 255}

\* tmux's side of the protocol: bytes below 0x20 and the backslash become a
\* backslash and three octal digits, every other byte goes out as it is
tmux_encode_byte(b) ==
    IF b < 32 \/ b = BACKSLASH
    THEN <<BACKSLASH, DIGIT_0 + (b \div 64), DIGIT_0 + ((b \div 8) % 8),
           DIGIT_0 + (b % 8)>>
    ELSE <<b>>

RECURSIVE tmux_encode(_)
tmux_encode(bytes) ==
    IF bytes = <<>> THEN <<>>
    ELSE tmux_encode_byte(Head(bytes)) \o tmux_encode(Tail(bytes))

is_octal_digit(b) == b >= DIGIT_0 /\ b <= DIGIT_0 + 7

\* the loop of decode_octal from index i (1-based; the code's i is i - 1)
RECURSIVE decode_from(_, _)
decode_from(bytes, i) ==
    IF i > Len(bytes) THEN <<>>
    ELSE IF /\ bytes[i] = BACKSLASH
            /\ (i - 1) + 3 < Len(bytes)
            /\ is_octal_digit(bytes[i + 1])
            /\ is_octal_digit(bytes[i + 2])
            /\ is_octal_digit(bytes[i + 3])
            /\ (bytes[i + 1] - DIGIT_0) * 64 + (bytes[i + 2] - DIGIT_0) * 8
                 + (bytes[i + 3] - DIGIT_0) <= 255
         THEN <<(bytes[i + 1] - DIGIT_0) * 64 + (bytes[i + 2] - DIGIT_0) * 8
                  + (bytes[i + 3] - DIGIT_0)>> \o decode_from(bytes, i + 4)
         ELSE <<bytes[i]>> \o decode_from(bytes, i + 1)

decode_octal(input) == decode_from(input, 1)

\* String::from_utf8_lossy on the bytes the model writes: ASCII stays, a lead
\* byte 0xC2..0xDF with a continuation byte 0x80..0xBF stays, any other byte
\* of 0x80..0xDF or 0xF5..0xFF is replaced by U+FFFD
RECURSIVE from_utf8_lossy(_)
from_utf8_lossy(buf) ==
    IF buf = <<>> THEN <<>>
    ELSE IF Head(buf) < 128
         THEN <<Head(buf)>> \o from_utf8_lossy(Tail(buf))
         ELSE IF /\ Head(buf) >= 194 /\ Head(buf) <= 223
                 /\ Len(buf) >= 2
                 /\ buf[2] >= 128 /\ buf[2] <= 191
              THEN <<buf[1], buf[2]>> \o from_utf8_lossy(Tail(Tail(buf)))
              ELSE REPLACEMENT_CHARACTER \o from_utf8_lossy(Tail(buf))

\* the reader task strips the line's trailing \n and \r
RECURSIVE StripLineEnd(_)
StripLineEnd(buf) ==
    IF buf # <<>> /\ buf[Len(buf)] \in {10, 13}
    THEN StripLineEnd(SubSeq(buf, 1, Len(buf) - 1))
    ELSE buf

\* rest.find(' '): the 1-based index of the first space from i on, 0 if none
RECURSIVE FindSpace(_, _)
FindSpace(rest, i) ==
    IF i > Len(rest) THEN 0
    ELSE IF rest[i] = SPACE THEN i
    ELSE FindSpace(rest, i + 1)

\* rest.trim() for the ASCII space
RECURSIVE TrimSpaces(_)
TrimSpaces(s) ==
    IF s # <<>> /\ Head(s) = SPACE THEN TrimSpaces(Tail(s))
    ELSE IF s # <<>> /\ s[Len(s)] = SPACE
         THEN TrimSpaces(SubSeq(s, 1, Len(s) - 1))
         ELSE s

OutputEvent(pane_id, content) == [pane_id |-> pane_id, content |-> content]

ParseOutputAt(rest, space_idx) ==
    IF space_idx > 0
    THEN OutputEvent(SubSeq(rest, 1, space_idx - 1),
                     decode_octal(SubSeq(rest, space_idx + 1, Len(rest))))
    ELSE OutputEvent(TrimSpaces(rest), <<>>)

parse_output(line) ==
    ParseOutputAt(SubSeq(line, Len(OUTPUT_PREFIX) + 1, Len(line)),
                  FindSpace(SubSeq(line, Len(OUTPUT_PREFIX) + 1, Len(line)), 1))

\* the line tmux writes for the bytes of pane %0
TmuxOutputLine(bytes) ==
    OUTPUT_PREFIX \o PANE_ID_0 \o <<SPACE>> \o tmux_encode(bytes) \o <<10>>

\* what the reader task hands to parse_line for a line read from tmux
ReadLine(buf) == from_utf8_lossy(StripLineEnd(buf))

OctalInit ==
    /\ octRaw = <<>>
    /\ octDecoded = NoneV

\* the pane writes one more byte
PaneWrites(b) ==
    /\ Len(octRaw) < MaxRaw
    /\ octRaw' = Append(octRaw, b)
    /\ octDecoded' = NoneV

\* tmux reports the bytes in a %output line, the reader task reads the line
\* and the parser makes the Output event of it
ReadOutputLine ==
    /\ octDecoded' = Some(parse_output(ReadLine(TmuxOutputLine(octRaw))))
    /\ UNCHANGED octRaw

(***************************************************************************)
(* OscParser (osc.rs): process strips the OSC sequences from a pane's      *)
(* output and keeps the hyperlink of every cell written under an OSC 8.    *)
(* Content is a sequence of bytes.                                         *)
(***************************************************************************)
ESC == 27

BEL == 7

OSC_INTRO == <<27, 93>>

\* "8;" and "52;"
OSC8_PREFIX == <<56, 59>>

OSC52_PREFIX == <<53, 50, 59>>

SEMICOLON == 59

\* "id="
ID_PREFIX == <<105, 100, 61>>

\* the URLs of the hyperlinks: "u", "v;w"
OscUrls == {<<117>>, <<118, 59, 119>>}

Osc8Open(url, terminator) == OSC_INTRO \o OSC8_PREFIX \o <<SEMICOLON>> \o url \o terminator

StTerminator == <<27, 92>>

BelTerminator == <<7>>

\* the pieces a pane's output is made of: OSC 8 openers and closers with
\* either terminator, an opener with an id, a window title (OSC 0), an OSC
\* that is never terminated, the text abc, a line feed, a carriage return
OscPieces ==
    {Osc8Open(u, BelTerminator) : u \in OscUrls}
    \cup {Osc8Open(<<117>>, StTerminator),
          Osc8Open(<<>>, BelTerminator),
          OSC_INTRO \o OSC8_PREFIX \o ID_PREFIX \o <<120, 59, 117>> \o BelTerminator,
          OSC_INTRO \o <<48, 59, 116>> \o BelTerminator,
          OSC_INTRO \o <<56>>,
          <<97, 98, 99>>, <<10>>, <<13>>}

OscContents ==
    OscPieces
    \cup {p \o q : p \in OscPieces, q \in OscPieces}
    \cup {Osc8Open(u, BelTerminator) \o <<97, 98, 99>> \o Osc8Open(<<>>, t) :
            u \in OscUrls, t \in {BelTerminator, StTerminator}}

HasPrefix(s, p) == Len(s) >= Len(p) /\ SubSeq(s, 1, Len(p)) = p

DropPrefix(s, p) == SubSeq(s, Len(p) + 1, Len(s))

\* OscParser::new(); cell_urls is a function on the cells that have a URL
NewOscParser ==
    [active_hyperlink |-> NoneV, hyperlink_start |-> NoneV,
     cursor_row |-> 0, cursor_col |-> 0,
     hyperlinks |-> <<>>, cell_urls |-> <<>>]

get_url(p, row, col) ==
    IF <<row, col>> \in DOMAIN p.cell_urls
    THEN Some(p.cell_urls[<<row, col>>])
    ELSE NoneV

\* find_osc_end on content[i..]: the scan from index j (both 1-based) for
\* ST or BEL; <<length with terminator, the OSC's content>> or NoneV.
\* The variant below knows ST only.
RECURSIVE FindOscEndStOnly(_, _, _)
FindOscEndStOnly(content, i, j) ==
    IF j > Len(content) THEN NoneV
    ELSE IF j + 1 <= Len(content) /\ content[j] = ESC /\ content[j + 1] = 92
         THEN Some(<<(j - i) + 2, SubSeq(content, i + 2, j - 1)>>)
         ELSE FindOscEndStOnly(content, i, j + 1)

RECURSIVE FindOscEnd(_, _, _)
FindOscEnd(content, i, j) ==
    IF j > Len(content) THEN NoneV
    ELSE IF j + 1 <= Len(content) /\ content[j] = ESC /\ content[j + 1] = 92
         THEN Some(<<(j - i) + 2, SubSeq(content, i + 2, j - 1)>>)
         ELSE IF content[j] = BEL
              THEN Some(<<(j - i) + 1, SubSeq(content, i + 2, j - 1)>>)
              ELSE FindOscEnd(content, i, j + 1)

find_osc_end(content, i) == FindOscEnd(content, i, i + 2)

finalize_hyperlink(p) ==
    IF IsSome(p.active_hyperlink) /\ IsSome(p.hyperlink_start)
    THEN [p EXCEPT !.active_hyperlink = NoneV, !.hyperlink_start = NoneV,
                   !.hyperlinks = Append(@,
                       [start_row |-> p.hyperlink_start[1][1],
                        start_col |-> p.hyperlink_start[1][2],
                        end_row |-> p.cursor_row, end_col |-> p.cursor_col,
                        url |-> p.active_hyperlink[1].url,
                        id |-> p.active_hyperlink[1].id])]
    ELSE [p EXCEPT !.active_hyperlink = NoneV, !.hyperlink_start = NoneV]

\* the id= of the params (the params of the inputs hold no ':')
Osc8Id(params) ==
    IF HasPrefix(params, ID_PREFIX) THEN Some(DropPrefix(params, ID_PREFIX))
    ELSE NoneV

\* parse_osc8 with the index of the first ';' of the content, 0 if none
ParseOsc8At(p, content, semi) ==
    IF semi = 0 THEN p
    ELSE IF semi = Len(content) THEN finalize_hyperlink(p)
    ELSE [finalize_hyperlink(p) EXCEPT
            !.active_hyperlink =
                Some([url |-> SubSeq(content, semi + 1, Len(content)),
                      id |-> Osc8Id(SubSeq(content, 1, semi - 1))]),
            !.hyperlink_start = Some(<<p.cursor_row, p.cursor_col>>)]

RECURSIVE FindByte(_, _, _)
FindByte(s, b, i) ==
    IF i > Len(s) THEN 0
    ELSE IF s[i] = b THEN i
    ELSE FindByte(s, b, i + 1)

parse_osc8(p, content) == ParseOsc8At(p, content, FindByte(content, SEMICOLON, 1))

\* parse_osc; the inputs hold no OSC 52 (clipboard), whose branch is left out
parse_osc(p, content) ==
    IF HasPrefix(from_utf8_lossy(content), OSC8_PREFIX)
    THEN parse_osc8(p, DropPrefix(from_utf8_lossy(content), OSC8_PREFIX))
    ELSE p

\* one byte that is not the start of a complete OSC: the cursor tracking
TrackByte(p, b) ==
    IF b = 10 THEN [p EXCEPT !.cursor_row = @ + 1, !.cursor_col = 0]
    ELSE IF b = 13 THEN [p EXCEPT !.cursor_col = 0]
    ELSE IF b >= 32 /\ b < 127
         THEN [p EXCEPT
                 !.cell_urls =
                     IF IsSome(p.active_hyperlink)
                     THEN Put(@, <<p.cursor_row, p.cursor_col>>,
                              p.active_hyperlink[1].url)
                     ELSE @,
                 !.cursor_col = @ + 1]
         ELSE p

\* the loop of process from index i: <<the parser, the output>>
RECURSIVE ProcessFrom(_, _, _, _)
ProcessFrom(p, content, i, output) ==
    IF i > Len(content) THEN <<p, output>>
    ELSE IF /\ content[i] = ESC
            /\ i + 1 <= Len(content)
            /\ content[i + 1] = 93
            /\ IsSome(find_osc_end(content, i))
         THEN ProcessFrom(parse_osc(p, find_osc_end(content, i)[1][2]),
                          content, i + find_osc_end(content, i)[1][1], output)
         ELSE ProcessFrom(TrackByte(p, content[i]), content, i + 1,
                          Append(output, content[i]))

process(p, content) == ProcessFrom(p, content, 1, <<>>)

OscInit ==
    /\ osc_parser = NewOscParser
    /\ oscCall = NoneV
    /\ oscCalls = 0

\* PaneState::process_output hands the content to the pane's parser
OscProcess(content) ==
    /\ oscCalls < MaxOscCalls
    /\ osc_parser' = process(osc_parser, content)[1]
    /\ oscCall' = Some([content |-> content,
                        output |-> process(osc_parser, content)[2]])
    /\ oscCalls' = oscCalls + 1

\* OscParser::reset
OscReset ==
    /\ osc_parser # NewOscParser
    /\ osc_parser' = NewOscParser
    /\ oscCall' = NoneV
    /\ oscCalls' = 0

(***************************************************************************)
(* The monitor and its tmux: every command the monitor writes is answered  *)
(* by one %begin..%end or %begin..%error block, in the order of the        *)
(* commands (monitor.rs:128-177, 245-276, 344-412, 424-433).               *)
(***************************************************************************)
Command(name) == <<name>>

CapturePane(pane_id) == <<"capture-pane", pane_id>>

Reply(output, success) ==
    [type |-> "CommandResponse", output |-> output, success |-> success]

\* what tmux can answer to a command: the windows and the panes of the
\* session, the content of a pane (text, one empty line, nothing, lines
\* that look like a list, an error), the output of any other command
RepliesTo(command) ==
    CASE command = Command("list-windows") ->
            {Reply(<<WindowLine("@0", "0", "main", "1")>>, TRUE)}
      [] command = Command("list-panes") ->
            {Reply(<<P0, P1>>, TRUE), Reply(<<P0Mode, P1>>, TRUE)}
      [] command[1] = "capture-pane" ->
            {Reply(<< <<"a">> >>, TRUE), Reply(<< <<"b">> >>, TRUE),
             Reply(<<>>, TRUE), Reply(<< <<"%1", "x">> >>, TRUE),
             Reply(<< <<"no pane">> >>, FALSE)}
      [] command = Command("run") ->
            {Reply(<<>>, TRUE), Reply(<< <<"a">> >>, TRUE)}
      [] OTHER -> {Reply(<<>>, TRUE)}

AllReplies ==
    UNION {RepliesTo(c) : c \in {Command("list-windows"), Command("list-panes"),
                                 CapturePane("%0"), Command("run"),
                                 Command("resizew")}}

TmuxInit ==
    /\ outstanding = <<>>
    /\ synced = FALSE
    /\ replies = 0

\* sync_initial_state: resizew, refresh-client -f pause-after=5, list-windows
\* and list-panes (no tmuxy config to source)
SyncInitialState ==
    /\ ~synced
    /\ synced' = TRUE
    /\ outstanding' = <<Command("resizew"), Command("refresh-client"),
                        Command("list-windows"), Command("list-panes")>>
    /\ UNCHANGED <<aggVars, replies>>

\* tmux answers its oldest command and the event arm takes the reply
TmuxReplies(answer) ==
    /\ synced
    /\ outstanding # <<>>
    /\ replies < MaxReplies
    /\ answer \in RepliesTo(Head(outstanding))
    /\ Handle(answer, FALSE, process_event(aggregator, answer),
              WithCaptures(process_event(aggregator, answer)))
    /\ outstanding' = Tail(outstanding) \o lastSent'
    /\ replies' = replies + 1
    /\ UNCHANGED <<synced, steps>>

\* get_panes_in_copy_mode, in the order of the pane ids
RECURSIVE CopyModePanesOf(_, _)
CopyModePanesOf(agg, order) ==
    IF order = <<>> THEN <<>>
    ELSE (IF /\ Head(order) \in DOMAIN agg.panes
             /\ agg.panes[Head(order)].in_mode
             /\ agg.panes[Head(order)].window_id # ""
          THEN <<Head(order)>> ELSE <<>>)
         \o CopyModePanesOf(agg, Tail(order))

has_pane_in_copy_mode(agg) ==
    \E id \in DOMAIN agg.panes : agg.panes[id].in_mode

\* the periodic sync: list-windows and list-panes, or with a pane in copy
\* mode and the last full sync not long ago (`fast') list-panes and a
\* capture-pane for each pane in copy mode
SyncCommands(agg, fast) ==
    IF fast
    THEN <<Command("list-panes")>>
         \o [i \in 1..Len(CopyModePanesOf(agg, PaneOrder)) |->
                CapturePane(CopyModePanesOf(agg, PaneOrder)[i])]
    ELSE <<Command("list-windows"), Command("list-panes")>>

PeriodicSync ==
    \E fast \in (IF has_pane_in_copy_mode(aggregator) THEN BOOLEAN ELSE {FALSE}) :
        /\ synced
        /\ Len(outstanding) + Len(SyncCommands(aggregator, fast)) <= MaxOutstanding
        /\ outstanding' = outstanding \o SyncCommands(aggregator, fast)
        /\ aggregator' = IF fast
                         THEN queue_captures(aggregator,
                                             CopyModePanesOf(aggregator, PaneOrder))
                         ELSE aggregator
        /\ UNCHANGED <<pending_output_emit, lastSent, lastUpdate, seqLog,
                       lastEventType, lastListed, reconnects, steps,
                       synced, replies>>

\* MonitorCommand::RunCommand: a client's command goes to tmux
MonitorRunCommand ==
    /\ synced
    /\ Len(outstanding) < MaxOutstanding
    /\ outstanding' = Append(outstanding, Command("run"))
    /\ UNCHANGED <<aggVars, synced, replies>>

(***************************************************************************)
(*                         COMMAND ROUTING                                 *)
(* Several sessions in state.sessions, the token map, and a command        *)
(* request as two steps: commands_handler up to the choice of the session, *)
(* and handle_command.  The token of connection c is identified with c.    *)
(***************************************************************************)
SessionS == "S"

SessionT == "T"

RouteSessions == {SessionS, SessionT}

\* Query<SessionQuery>: the session parameter of a request, or none
Queries == {NoneV} \cup {Some(s) : s \in RouteSessions}

NewStream == [phase |-> "new", session |-> ""]

RouteInit ==
    /\ session_map = [s \in RouteSessions |-> NoneV]
    /\ token_map = [c \in ConnIds |-> NoneV]
    /\ stream = [c \in ConnIds |-> NewStream]
    /\ in_flight = [c \in ConnIds |-> NoneV]
    /\ monitor_rx = [s \in RouteSessions |-> <<>>]
    /\ handled = 0

\* sse_handler, the registry lock section: the entry of the session is
\* created when missing, the connection pushed, the monitor spawned
SseRegister(c, s) ==
    /\ stream[c].phase = "new"
    /\ \A d \in ConnIds : d < c => stream[d].phase # "new"
    /\ LET session_conns == IF IsSome(session_map[s]) THEN session_map[s][1]
                            ELSE SessionConnections_new
       IN  session_map' = [session_map EXCEPT ![s] =
                Some([session_conns EXCEPT !.connections = Append(@, c),
                                           !.monitor_handle = Some(s)])]
    /\ stream' = [stream EXCEPT ![c] = [phase |-> "registered", session |-> s]]
    /\ UNCHANGED <<token_map, in_flight, monitor_rx, handled>>

\* sse_handler stores the session token with the connection id and session
SseStoreToken(c) ==
    /\ stream[c].phase = "registered"
    /\ token_map' = [token_map EXCEPT ![c] = Some(stream[c].session)]
    /\ stream' = [stream EXCEPT ![c].phase = "streaming"]
    /\ UNCHANGED <<session_map, in_flight, monitor_rx, handled>>

\* the monitor task of the session stores its command sender in the entry
RouteMonitorStore(s) ==
    /\ IsSome(session_map[s])
    /\ session_map[s][1].monitor_command_tx = NoneV
    /\ session_map' = [session_map EXCEPT ![s] =
            Some([session_map[s][1] EXCEPT !.monitor_command_tx = Some(s)])]
    /\ UNCHANGED <<token_map, stream, in_flight, monitor_rx, handled>>

\* commands_handler up to handle_command: the token is looked up, and the
\* session is the one of the query, or the token's when the query has none
CommandsLookup(c, query) ==
    /\ handled + Cardinality({d \in ConnIds : IsSome(in_flight[d])}) < MaxHandled
    /\ in_flight[c] = NoneV
    /\ IsSome(token_map[c])
    /\ in_flight' = [in_flight EXCEPT ![c] =
            Some([conn_id |-> c, token_session |-> token_map[c][1],
                  session |-> IF IsSome(query) THEN query[1] ELSE token_map[c][1]])]
    /\ UNCHANGED <<session_map, token_map, stream, monitor_rx, handled>>

\* set_client_size(state, session, conn_id, cols, rows)
RouteSetClientSize(session, conn_id, size) ==
    IF IsSome(session_map[session])
    THEN LET session_conns == session_map[session][1]
             sizes == Put(session_conns.client_sizes, conn_id, size)
             min == compute_min_client_size(sizes)
         IN  IF session_conns.last_resize = Some(min)
             THEN /\ session_map' = [session_map EXCEPT ![session] =
                        Some([session_conns EXCEPT !.client_sizes = sizes])]
                  /\ UNCHANGED monitor_rx
             ELSE /\ session_map' = [session_map EXCEPT ![session] =
                        Some([session_conns EXCEPT !.client_sizes = sizes,
                                                   !.last_resize = Some(min)])]
                  /\ monitor_rx' =
                        IF IsSome(session_conns.monitor_command_tx)
                        THEN [monitor_rx EXCEPT ![session] = Append(@, ResizeWindow(min))]
                        ELSE monitor_rx
    ELSE UNCHANGED <<session_map, monitor_rx>>

\* handle_command for set_client_size
HandleSetClientSize(c, size) ==
    /\ IsSome(in_flight[c])
    /\ RouteSetClientSize(in_flight[c][1].session, in_flight[c][1].conn_id, size)
    /\ in_flight' = [in_flight EXCEPT ![c] = NoneV]
    /\ handled' = handled + 1
    /\ UNCHANGED <<token_map, stream>>

\* handle_command for send_keys_to_tmux: send_via_control_mode hands a
\* RunCommand to the monitor of the session, or fails without one
HandleSendKeys(c) ==
    /\ IsSome(in_flight[c])
    /\ LET session == in_flight[c][1].session IN
       monitor_rx' =
            IF IsSome(session_map[session])
               /\ IsSome(session_map[session][1].monitor_command_tx)
            THEN [monitor_rx EXCEPT ![session] =
                    Append(@, [cmd |-> "RunCommand", cols |-> 0, rows |-> 0])]
            ELSE monitor_rx
    /\ in_flight' = [in_flight EXCEPT ![c] = NoneV]
    /\ handled' = handled + 1
    /\ UNCHANGED <<session_map, token_map, stream>>

\* the stream was dropped: cleanup_connection removes the token
CleanupToken(c) ==
    /\ stream[c].phase = "streaming"
    /\ token_map' = [token_map EXCEPT ![c] = NoneV]
    /\ stream' = [stream EXCEPT ![c].phase = "cleanup"]
    /\ UNCHANGED <<session_map, in_flight, monitor_rx, handled>>

\* cleanup_connection after the token: the connection and its size leave
\* the entry of the stream's session; the last one removes the entry and
\* shuts the monitor down, else the others' minimum is sent
CleanupSession(c) ==
    /\ stream[c].phase = "cleanup"
    /\ stream' = [stream EXCEPT ![c].phase = "gone"]
    /\ UNCHANGED <<token_map, in_flight, handled>>
    /\ LET session == stream[c].session IN
       IF IsSome(session_map[session])
       THEN LET session_conns == session_map[session][1]
                connections == Without(session_conns.connections, c)
                had_size == c \in DOMAIN session_conns.client_sizes
                sizes == Restrict(session_conns.client_sizes,
                                  DOMAIN session_conns.client_sizes \ {c})
                new_min == compute_min_client_size(sizes)
                with_tx == IsSome(session_conns.monitor_command_tx)
            IN  IF connections = <<>>
                THEN /\ session_map' = [session_map EXCEPT ![session] = NoneV]
                     /\ monitor_rx' =
                            IF IsSome(session_conns.monitor_handle) /\ with_tx
                            THEN [monitor_rx EXCEPT ![session] = Append(@, Shutdown)]
                            ELSE monitor_rx
                ELSE IF had_size /\ DOMAIN sizes # {}
                THEN /\ session_map' = [session_map EXCEPT ![session] =
                            Some([session_conns EXCEPT
                                    !.connections = connections, !.client_sizes = sizes,
                                    !.last_resize = Some(new_min)])]
                     /\ monitor_rx' =
                            IF with_tx
                            THEN [monitor_rx EXCEPT ![session] =
                                    Append(@, ResizeWindow(new_min))]
                            ELSE monitor_rx
                ELSE /\ session_map' = [session_map EXCEPT ![session] =
                            Some([session_conns EXCEPT
                                    !.connections = connections, !.client_sizes = sizes])]
                     /\ UNCHANGED monitor_rx
       ELSE UNCHANGED <<session_map, monitor_rx>>
(***************************************************************************)
(*                  THE MONITOR, THE READER AND THE CHILD                  *)
(* connect() spawns `script -c "tmux -CC ..."' with piped stdin and stdout *)
(* and a reader task that parses stdout into the event channel.  The child *)
(* is one loop that copies its stdin to tmux and tmux's output to its      *)
(* stdout with blocking writes.  A line of tmux is "plain" (an event that  *)
(* needs no command) or "pause" (the monitor answers with a continue).     *)
(***************************************************************************)
LineKinds == {"plain", "pause"}

AtSelect == [pc |-> "select", left |-> 0]

PipeInit ==
    /\ stdin_pipe = 0
    /\ stdout_pipe = <<>>
    /\ event_ch = <<>>
    /\ reader = NoneV
    /\ child = NoneV
    /\ mon = AtSelect
    /\ outputs = 0
    /\ commands_in = 0

\* the child reads a line that tmux put out; it will write it to stdout
ChildReadsTmux(kind) ==
    /\ child = NoneV
    /\ outputs < MaxOutputs
    /\ outputs' = outputs + 1
    /\ child' = Some(kind)
    /\ UNCHANGED <<stdin_pipe, stdout_pipe, event_ch, reader, mon, commands_in>>

\* the child's write to stdout: it returns when the pipe has room
ChildWritesStdout ==
    /\ IsSome(child)
    /\ Len(stdout_pipe) < PipeCap
    /\ stdout_pipe' = Append(stdout_pipe, child[1])
    /\ child' = NoneV
    /\ UNCHANGED <<stdin_pipe, event_ch, reader, mon, outputs, commands_in>>

\* the child, not in a write, copies a command line from its stdin to tmux
ChildReadsStdin ==
    /\ child = NoneV
    /\ stdin_pipe > 0
    /\ stdin_pipe' = stdin_pipe - 1
    /\ UNCHANGED <<stdout_pipe, event_ch, reader, child, mon, outputs, commands_in>>

\* spawn_parser_task: read_until returns a line, parse_line an event
ReaderReads ==
    /\ reader = NoneV
    /\ stdout_pipe # <<>>
    /\ reader' = Some(Head(stdout_pipe))
    /\ stdout_pipe' = Tail(stdout_pipe)
    /\ UNCHANGED <<stdin_pipe, event_ch, child, mon, outputs, commands_in>>

\* spawn_parser_task: tx.send(event).await returns when the channel has room
ReaderSends ==
    /\ IsSome(reader)
    /\ Len(event_ch) < ChannelCap
    /\ event_ch' = Append(event_ch, reader[1])
    /\ reader' = NoneV
    /\ UNCHANGED <<stdin_pipe, stdout_pipe, child, mon, outputs, commands_in>>

\* run, the event arm: recv, process_event, and the continue of a pause
\* goes to send_command
MonitorRecv ==
    /\ mon.pc = "select"
    /\ event_ch # <<>>
    /\ event_ch' = Tail(event_ch)
    /\ mon' = IF Head(event_ch) = "pause" THEN [pc |-> "write", left |-> 1]
              ELSE AtSelect
    /\ UNCHANGED <<stdin_pipe, stdout_pipe, reader, child, outputs, commands_in>>

\* run, the command arm: a RunCommand of this many lines goes to send_command
MonitorTakesCommand(len) ==
    /\ mon.pc = "select"
    /\ commands_in < MaxCommandsIn
    /\ commands_in' = commands_in + 1
    /\ mon' = [pc |-> "write", left |-> len]
    /\ UNCHANGED <<stdin_pipe, stdout_pipe, event_ch, reader, child, outputs>>

\* send_command: write_all(...).await goes on while the pipe has room and
\* returns when nothing is left
MonitorWrites ==
    /\ mon.pc = "write"
    /\ stdin_pipe < PipeCap
    /\ stdin_pipe' = stdin_pipe + 1
    /\ mon' = IF mon.left = 1 THEN AtSelect ELSE [mon EXCEPT !.left = @ - 1]
    /\ UNCHANGED <<stdout_pipe, event_ch, reader, child, outputs, commands_in>>

(***************************************************************************)
(* The end of TmuxMonitor::run: the Exit event                             *)
(***************************************************************************)
RunInit ==
    /\ running = TRUE
    /\ errors = 0

\* the event arm for Some(ControlModeEvent::Exit): emit_error and break;
\* process_event is not called and no state is emitted
RunExit ==
    /\ running
    /\ arrived = "none"
    /\ running' = FALSE
    /\ errors' = errors + 1
    /\ lastIter' = [arm |-> "exit", change |-> "None",
                    engaged |-> throttle.rate_event_count > THROTTLE_THRESHOLD,
                    pending |-> throttle.pending_output_emit,
                    called |-> FALSE, emitted |-> FALSE]
    /\ UNCHANGED <<clock, throttle, arrived, steady, emissions>>

(***************************************************************************)
(* PaneState on the level of its bytes: raw_buffer and osc_parser.  The    *)
(* emulator is its grid size here; its cells are followed in the           *)
(* aggregator's panes above.                                               *)
(***************************************************************************)
\* the cap of process_output on raw_buffer
RAW_BUFFER_LIMIT == 65536

\* n bytes of text
Fill(n) == [i \in 1..n |-> 120]

\* outputs of the pane: text, linked text, a link left open
PaneOutputs ==
    {<<97, 98, 99>>,
     Osc8Open(<<117>>, BelTerminator) \o <<97>>}
    \cup {Osc8Open(u, BelTerminator) \o <<97, 98, 99>> \o Osc8Open(<<>>, BelTerminator) :
            u \in OscUrls}

\* capture-pane outputs: two short lines, and long ones
PaneCaptures ==
    {<<97, 10, 98>>} \cup {Fill(n) : n \in LongCaptures}

PaneSizes == {<<4, 4>>, <<8, 4>>}

\* vt100::Parser::new(height, width, 0)
NewGrid(width, height) ==
    [rows |-> height, cols |-> width]

\* PaneState::new
NewBytePane(width, height) ==
    [width |-> width, height |-> height,
     terminal |-> NewGrid(width, height),
     osc_parser |-> NewOscParser,
     raw_buffer |-> <<>>]

\* raw_buffer.extend(content), then the last 64 KiB of it are kept
ExtendedAndCapped(raw_buffer, content) ==
    LET extended == raw_buffer \o content
    IN  IF Len(extended) > RAW_BUFFER_LIMIT
        THEN SubSeq(extended, Len(extended) - RAW_BUFFER_LIMIT + 1, Len(extended))
        ELSE extended

\* PaneState::process_output
PaneState_process_output(pane, content) ==
    [pane EXCEPT !.raw_buffer = ExtendedAndCapped(pane.raw_buffer, content),
                 !.osc_parser = process(pane.osc_parser, content)[1]]

\* PaneState::reset_and_process_capture: a fresh emulator, the raw buffer
\* becomes the capture; osc_parser is not touched
PaneState_reset_and_process_capture(pane, content) ==
    [pane EXCEPT !.terminal = NewGrid(pane.width, pane.height),
                 !.raw_buffer = content]

\* PaneState::resize: on a change of dimensions a fresh emulator and an
\* empty raw buffer; osc_parser is not touched
PaneState_resize(pane, width, height) ==
    IF pane.width # width \/ pane.height # height
    THEN [pane EXCEPT !.width = width, !.height = height,
                      !.terminal = NewGrid(width, height),
                      !.raw_buffer = <<>>]
    ELSE pane

\* the URL that get_content puts on the cell (row, col) of the grid
CellUrl(pane, row, col) ==
    get_url(pane.osc_parser, row, col)

ByteInit ==
    /\ raw_pane = NewBytePane(4, 4)
    /\ raw_op = "new"
    /\ raw_ops = 0

PaneOutput(content) ==
    /\ raw_ops < MaxPaneOps
    /\ raw_pane' = PaneState_process_output(raw_pane, content)
    /\ raw_op' = "process_output"
    /\ raw_ops' = raw_ops + 1

PaneCapture(content) ==
    /\ raw_ops < MaxPaneOps
    /\ raw_pane' = PaneState_reset_and_process_capture(raw_pane, content)
    /\ raw_op' = "reset_and_process_capture"
    /\ raw_ops' = raw_ops + 1

\* a resize that changes the dimensions
PaneResize(width, height) ==
    /\ raw_ops < MaxPaneOps
    /\ raw_pane.width # width \/ raw_pane.height # height
    /\ raw_pane' = PaneState_resize(raw_pane, width, height)
    /\ raw_op' = "resize"
    /\ raw_ops' = raw_ops + 1
(***************************************************************************)
(* Specifications: the parser, the state aggregator inside the monitor,    *)
(* and the registry with its monitor tasks, each over its own variables    *)
(***************************************************************************)
Init ==
    /\ ParserInit
    /\ AggInit
    /\ RegInit
    /\ LoopInit
    /\ StreamInit
    /\ CmdInit
    /\ OctalInit
    /\ OscInit
    /\ TmuxInit
    /\ RouteInit
    /\ PipeInit
    /\ RunInit
    /\ ByteInit

NextParser ==
    /\ ParseLine
    /\ UNCHANGED notParser

SpecParser ==
    Init /\ [][NextParser]_vars

NextAggregator ==
    \/ MonitorEvent /\ UNCHANGED notAgg
    \/ ThrottleTimer /\ UNCHANGED notAgg
    \/ MonitorReconnect /\ UNCHANGED notAgg

SpecAgg ==
    Init /\ [][NextAggregator]_vars

NextRegistry ==
    \/ Attach /\ UNCHANGED notReg
    \/ \E c \in ConnIds, size \in ClientSizes :
            SetClientSize(c, size) /\ UNCHANGED notReg
    \/ \E c \in ConnIds : SetClientSizeSend(c) /\ UNCHANGED notReg
    \/ \E c \in ConnIds : CleanupConnection(c) /\ UNCHANGED notReg
    \/ \E c \in ConnIds : CleanupStopMonitor(c) /\ UNCHANGED notReg
    \/ \E c \in ConnIds : CleanupFinish(c) /\ UNCHANGED notReg
    \/ \E c \in ConnIds : CleanupResize(c) /\ UNCHANGED notReg
    \/ \E t \in TaskIds : MonitorCheck(t) /\ UNCHANGED notReg
    \/ \E t \in TaskIds, ok \in BOOLEAN :
            MonitorConnect(t, ok) /\ UNCHANGED notReg
    \/ \E t \in TaskIds : MonitorStore(t) /\ UNCHANGED notReg
    \/ \E t \in TaskIds : MonitorSync(t) /\ UNCHANGED notReg
    \/ \E t \in TaskIds : MonitorCommand(t) /\ UNCHANGED notReg
    \/ \E t \in TaskIds : MonitorChannelClosed(t) /\ UNCHANGED notReg
    \/ \E t \in TaskIds : MonitorConnectionClosed(t) /\ UNCHANGED notReg
    \/ \E t \in TaskIds : ChildExited(t) /\ UNCHANGED notReg
    \/ \E t \in TaskIds : GracefulCloseTimeout(t) /\ UNCHANGED notReg
    \/ \E t \in TaskIds : MonitorClear(t) /\ UNCHANGED notReg
    \/ \E t \in TaskIds : MonitorWake(t) /\ UNCHANGED notReg
    \/ Tick /\ UNCHANGED notReg

SpecReg ==
    Init /\ [][NextRegistry]_vars


\* the monitor task with any number of failed connects in a row, and the
\* clients that attach and detach around it (no viewport reports)
NextMonitorTask ==
    \/ Attach /\ UNCHANGED notReg
    \/ \E c \in ConnIds : CleanupConnection(c) /\ UNCHANGED notReg
    \/ \E c \in ConnIds : CleanupStopMonitor(c) /\ UNCHANGED notReg
    \/ \E c \in ConnIds : CleanupFinish(c) /\ UNCHANGED notReg
    \/ \E t \in TaskIds : MonitorCheck(t) /\ UNCHANGED notReg
    \/ \E t \in TaskIds, ok \in BOOLEAN :
            TryConnect(t, ok) /\ UNCHANGED notReg
    \/ \E t \in TaskIds : MonitorStore(t) /\ UNCHANGED notReg
    \/ \E t \in TaskIds : MonitorSync(t) /\ UNCHANGED notReg
    \/ \E t \in TaskIds : MonitorCommand(t) /\ UNCHANGED notReg
    \/ \E t \in TaskIds : MonitorChannelClosed(t) /\ UNCHANGED notReg
    \/ \E t \in TaskIds : MonitorConnectionClosed(t) /\ UNCHANGED notReg
    \/ \E t \in TaskIds : ChildExited(t) /\ UNCHANGED notReg
    \/ \E t \in TaskIds : GracefulCloseTimeout(t) /\ UNCHANGED notReg
    \/ \E t \in TaskIds : MonitorClear(t) /\ UNCHANGED notReg
    \/ \E t \in TaskIds : MonitorWake(t) /\ UNCHANGED notReg
    \/ Tick /\ UNCHANGED notReg

SpecTask ==
    Init /\ [][NextMonitorTask]_vars

NextLoop ==
    \/ \E change \in ChangeTypes, has_update \in BOOLEAN :
            LoopEvent(change, has_update) /\ UNCHANGED notLoop
    \/ \E has_update \in BOOLEAN : LoopTimer(has_update) /\ UNCHANGED notLoop
    \/ LoopTick /\ UNCHANGED notLoop

SpecLoop ==
    Init /\ [][NextLoop]_vars

\* the streams of two clients and the first updates of the monitor
NextStream ==
    \/ \E c \in ConnIds : StreamSubscribe(c) /\ UNCHANGED notStream
    \/ \E c \in ConnIds : StreamYieldInfo(c) /\ UNCHANGED notStream
    \/ \E c \in ConnIds : StreamYieldKeys(c) /\ UNCHANGED notStream
    \/ \E c \in ConnIds : StreamRecv(c) /\ UNCHANGED notStream
    \/ \E full \in BOOLEAN : MonitorEmit(full, MaxVaried + 2) /\ UNCHANGED notStream

SpecStream ==
    Init /\ [][NextStream]_vars

\* the stream of one client and more updates than the channel retains
NextLag ==
    \/ StreamSubscribe(1) /\ UNCHANGED notStream
    \/ StreamYieldInfo(1) /\ UNCHANGED notStream
    \/ StreamYieldKeys(1) /\ UNCHANGED notStream
    \/ StreamRecv(1) /\ UNCHANGED notStream
    \/ \E full \in BOOLEAN : MonitorEmit(full, MaxSent) /\ UNCHANGED notStream

SpecLag ==
    Init /\ [][NextLag]_vars

NextCommands ==
    \/ \E tok \in Tokens : TokenInsert(tok) /\ UNCHANGED notCmd
    \/ \E tok \in Tokens : TokenRemove(tok) /\ UNCHANGED notCmd
    \/ CommandTxStored /\ UNCHANGED notCmd
    \/ CommandTxCleared /\ UNCHANGED notCmd
    \/ \E token \in {NoneV} \cup {Some(tok) : tok \in Tokens},
          cmd \in CommandNames, command \in RawCommands :
            commands_handler(token, cmd, command) /\ UNCHANGED notCmd
    \/ MonitorCommandArm /\ UNCHANGED notCmd

SpecCmd ==
    Init /\ [][NextCommands]_vars

\* the pane output's way from the pane to the Output event
NextOctal ==
    \/ (\E b \in RawBytes : PaneWrites(b)) /\ UNCHANGED notOctal
    \/ ReadOutputLine /\ UNCHANGED notOctal

SpecOctal == Init /\ [][NextOctal]_vars

\* a pane's output through its OSC parser
NextOsc ==
    \/ (\E content \in OscContents : OscProcess(content)) /\ UNCHANGED notOsc
    \/ OscReset /\ UNCHANGED notOsc

SpecOsc == Init /\ [][NextOsc]_vars

\* the registry with clients that report 100x40 or 80x30
NextViewports ==
    \/ Attach /\ UNCHANGED notReg
    \/ \E c \in ConnIds, size \in ViewportsAB :
            SetClientSize(c, size) /\ UNCHANGED notReg
    \/ \E c \in ConnIds : SetClientSizeSend(c) /\ UNCHANGED notReg
    \/ \E c \in ConnIds : CleanupConnection(c) /\ UNCHANGED notReg
    \/ \E c \in ConnIds : CleanupStopMonitor(c) /\ UNCHANGED notReg
    \/ \E c \in ConnIds : CleanupFinish(c) /\ UNCHANGED notReg
    \/ \E c \in ConnIds : CleanupResize(c) /\ UNCHANGED notReg
    \/ \E t \in TaskIds : MonitorCheck(t) /\ UNCHANGED notReg
    \/ \E t \in TaskIds, ok \in BOOLEAN :
            MonitorConnect(t, ok) /\ UNCHANGED notReg
    \/ \E t \in TaskIds : MonitorStore(t) /\ UNCHANGED notReg
    \/ \E t \in TaskIds : MonitorSync(t) /\ UNCHANGED notReg
    \/ \E t \in TaskIds : MonitorCommand(t) /\ UNCHANGED notReg
    \/ \E t \in TaskIds : MonitorChannelClosed(t) /\ UNCHANGED notReg
    \/ \E t \in TaskIds : MonitorConnectionClosed(t) /\ UNCHANGED notReg
    \/ \E t \in TaskIds : ChildExited(t) /\ UNCHANGED notReg
    \/ \E t \in TaskIds : GracefulCloseTimeout(t) /\ UNCHANGED notReg
    \/ \E t \in TaskIds : MonitorClear(t) /\ UNCHANGED notReg
    \/ \E t \in TaskIds : MonitorWake(t) /\ UNCHANGED notReg
    \/ Tick /\ UNCHANGED notReg

SpecViewports == Init /\ [][NextViewports]_vars

\* the monitor and the tmux that answers its commands in their order
NextCaptures ==
    \/ SyncInitialState /\ UNCHANGED notAggTmux
    \/ (\E answer \in AllReplies : TmuxReplies(answer)) /\ UNCHANGED notAggTmux
    \/ PeriodicSync /\ UNCHANGED notAggTmux
    \/ MonitorRunCommand /\ UNCHANGED notAggTmux

SpecCaptures == Init /\ [][NextCaptures]_vars

\* the monitor over a copy-mode session of pane %0
NextCopyMode ==
    \/ CopyModeEvent /\ UNCHANGED notAgg
    \/ ThrottleTimer /\ UNCHANGED notAgg

SpecCopyMode == Init /\ [][NextCopyMode]_vars

\* the monitor over a session in which a client's command lists panes
NextPaneLines ==
    \/ SessionEvent(PaneLineEvents, MaxLineEvents) /\ UNCHANGED notAgg
    \/ ThrottleTimer /\ UNCHANGED notAgg

SpecPaneLines == Init /\ [][NextPaneLines]_vars

\* the command endpoint beside the streams of two sessions
NextRoute ==
    \/ \E c \in ConnIds, s \in RouteSessions : SseRegister(c, s) /\ UNCHANGED notRoute
    \/ \E c \in ConnIds : SseStoreToken(c) /\ UNCHANGED notRoute
    \/ \E s \in RouteSessions : RouteMonitorStore(s) /\ UNCHANGED notRoute
    \/ \E c \in ConnIds, query \in Queries :
            CommandsLookup(c, query) /\ UNCHANGED notRoute
    \/ \E c \in ConnIds, size \in ViewportsAB :
            HandleSetClientSize(c, size) /\ UNCHANGED notRoute
    \/ \E c \in ConnIds : HandleSendKeys(c) /\ UNCHANGED notRoute
    \/ \E c \in ConnIds : CleanupToken(c) /\ UNCHANGED notRoute
    \/ \E c \in ConnIds : CleanupSession(c) /\ UNCHANGED notRoute

SpecRoute == Init /\ [][NextRoute]_vars

\* the monitor, the reader task and the child
NextPipes ==
    \/ (\E kind \in LineKinds : ChildReadsTmux(kind)) /\ UNCHANGED notPipe
    \/ ChildWritesStdout /\ UNCHANGED notPipe
    \/ ChildReadsStdin /\ UNCHANGED notPipe
    \/ ReaderReads /\ UNCHANGED notPipe
    \/ ReaderSends /\ UNCHANGED notPipe
    \/ MonitorRecv /\ UNCHANGED notPipe
    \/ (\E len \in 1..MaxCommandLen : MonitorTakesCommand(len)) /\ UNCHANGED notPipe
    \/ MonitorWrites /\ UNCHANGED notPipe

SpecPipes == Init /\ [][NextPipes]_vars

\* the loop with its timers: time goes on, and a sleep that has run out is
\* taken by select!; no event has to arrive
NextLoopLive ==
    \/ \E change \in ChangeTypes, has_update \in BOOLEAN :
            LoopEvent(change, has_update) /\ UNCHANGED notLoop
    \/ LoopTimerFires /\ UNCHANGED notLoop
    \/ LoopTickLive /\ UNCHANGED notLoop

SpecLoopLive ==
    /\ Init
    /\ [][NextLoopLive]_vars
    /\ WF_vars(LoopTimerFires /\ UNCHANGED notLoop)
    /\ WF_vars(LoopTickLive /\ UNCHANGED notLoop)

\* run() up to and after the Exit event
NextRun ==
    \/ \E change \in ChangeTypes, has_update \in BOOLEAN :
            running /\ LoopEvent(change, has_update) /\ UNCHANGED notLoop
    \/ running /\ LoopTimerFires /\ UNCHANGED notLoop
    \/ running /\ LoopTickLive /\ UNCHANGED notLoop
    \/ RunExit /\ UNCHANGED notLoopRun

SpecRun ==
    Init /\ [][NextRun]_vars

\* the methods of one PaneState, called with outputs, captures and sizes
NextPaneBytes ==
    \/ (\E content \in PaneOutputs : PaneOutput(content)) /\ UNCHANGED notByte
    \/ (\E content \in PaneCaptures : PaneCapture(content)) /\ UNCHANGED notByte
    \/ (\E size \in PaneSizes : PaneResize(size[1], size[2])) /\ UNCHANGED notByte

SpecPaneBytes == Init /\ [][NextPaneBytes]_vars
(***************************************************************************)
(*                        CLAIMS ABOUT THE PARSER                          *)
(***************************************************************************)
IsTerminatorLine(l) ==
    Len(l) >= 2 /\ l[1] \in {"%end", "%error"}

IsNumberedBegin(l) ==
    Len(l) >= 3 /\ l[1] = "%begin"

NumberOfBegin(l) ==
    CASE l[3] = "1" -> 1
      [] l[3] = "2" -> 2
      [] OTHER -> 0

ResponseKeys ==
    LET rs == SelectSeq(parserEvents, LAMBDA e : e.type = "CommandResponse")
    IN  [i \in 1..Len(rs) |-> <<rs[i].command_num, rs[i].success>>]

\* One response per closed block: a terminator answers only a block that a
\* %begin line opened, with that line's number.
RECURSIVE BlockResponses(_, _)
BlockResponses(lines, open) ==
    IF lines = <<>> THEN <<>>
    ELSE LET l == Head(lines) IN
         IF IsNumberedBegin(l) THEN BlockResponses(Tail(lines), NumberOfBegin(l))
         ELSE IF IsTerminatorLine(l)
              THEN (IF open = -1 THEN <<>> ELSE << <<open, l[1] = "%end">> >>)
                   \o BlockResponses(Tail(lines), -1)
              ELSE BlockResponses(Tail(lines), open)

\* One response per terminator line, with the number of the last numbered
\* %begin line (0 before any).
RECURSIVE TerminatorResponses(_, _)
TerminatorResponses(lines, last) ==
    IF lines = <<>> THEN <<>>
    ELSE LET l == Head(lines) IN
         IF IsNumberedBegin(l) THEN TerminatorResponses(Tail(lines), NumberOfBegin(l))
         ELSE IF IsTerminatorLine(l)
              THEN << <<last, l[1] = "%end">> >> \o TerminatorResponses(Tail(lines), last)
              ELSE TerminatorResponses(Tail(lines), last)

\* C10 (as stated): for any sequence of input lines the CommandResponses
\* emitted are exactly one per %begin..%end / %begin..%error block, success
\* true for %end and false for %error, each with its block's %begin number.
C10_OnePerBlock ==
    ResponseKeys = BlockResponses(lineLog, -1)

\* C10 (amended): every %end / %error line yields exactly one CommandResponse
\* (success true for %end, false for %error) and no other line yields one; it
\* carries the command number of the most recent %begin line that has a
\* timestamp and a number (0 if that number does not parse or no such line
\* came before).  A block therefore yields exactly one response with its own
\* %begin's number, and a terminator outside any block yields one as well.
C10_OnePerTerminator ==
    ResponseKeys = TerminatorResponses(lineLog, 0)

\* C10 witness: a %begin 2 .. %error block has been answered with number 2.
C10_Witness ==
    /\ \E i \in 1..Len(lineLog) : lineLog[i] = <<"%begin", "9", "2", "0">>
    /\ \E i \in 1..Len(parserEvents) :
          /\ parserEvents[i].type = "CommandResponse"
          /\ parserEvents[i].command_num = 2
          /\ parserEvents[i].success = FALSE

\* the lines joined by "\n": a separator between every two lines
RECURSIVE JoinLines(_)
JoinLines(ls) ==
    IF ls = <<>> THEN <<>>
    ELSE IF Len(ls) = 1 THEN ls[1]
    ELSE ls[1] \o <<"\n">> \o JoinLines(Tail(ls))

\* per terminator line, the non-control lines since the %begin line that
\* opened the block (none outside a block), joined by "\n"
RECURSIVE JoinedOutputs(_, _, _)
JoinedOutputs(lines, open, acc) ==
    IF lines = <<>> THEN <<>>
    ELSE LET l == Head(lines) IN
         IF IsNumberedBegin(l) THEN JoinedOutputs(Tail(lines), TRUE, <<>>)
         ELSE IF IsTerminatorLine(l)
              THEN <<JoinLines(acc)>> \o JoinedOutputs(Tail(lines), FALSE, <<>>)
         ELSE IF l # <<>> /\ l[1] = "%begin" /\ Len(l) >= 2
              THEN JoinedOutputs(Tail(lines), open, acc)
         ELSE JoinedOutputs(Tail(lines), open, IF open THEN Append(acc, l) ELSE acc)

ResponseOutputs ==
    LET rs == SelectSeq(parserEvents, LAMBDA e : e.type = "CommandResponse")
    IN  [i \in 1..Len(rs) |-> rs[i].output]

\* C11: the output of a CommandResponse is the non-control lines received
\* between %begin and the terminator, in order, joined by "\n" exactly: every
\* line is kept, empty lines too, nothing is added or dropped.
C11_OutputIsJoinedLines ==
    ResponseOutputs = JoinedOutputs(lineLog, FALSE, <<>>)

(***************************************************************************)
(*                      CLAIMS ABOUT THE AGGREGATOR                        *)
(***************************************************************************)
\* the last to_state_update call was not the first of its aggregator
CalledAgain ==
    IsSome(lastUpdate) /\ ~lastUpdate[1].first

\* the last to_state_update call returned an update, not the first
EmittedAgain ==
    CalledAgain /\ lastUpdate[1].kind # "None"

\* C1: within one session every update gets a sequence number strictly
\* greater than that of every earlier update of the session, and the updates
\* reach the broadcast channel in that order, across Full and Delta updates
\* and across reconnects of the session's monitor.
C1_SeqStrictlyIncreasing ==
    \A i, j \in 1..Len(seqLog) : i < j => seqLog[i] < seqLog[j]

\* the panes of two snapshots that differ: in one only, or in any field
ChangedPanes(prev, current) ==
    {id \in DOMAIN prev.panes \cup DOMAIN current.panes :
        \/ id \notin DOMAIN prev.panes
        \/ id \notin DOMAIN current.panes
        \/ prev.panes[id] # current.panes[id]}

\* the panes of two snapshots that differ in one only, or in a field other
\* than the title and the pane index
CountedPanes(prev, current) ==
    {id \in DOMAIN prev.panes \cup DOMAIN current.panes :
        \/ id \notin DOMAIN prev.panes
        \/ id \notin DOMAIN current.panes
        \/ \E f \in DOMAIN current.panes[id] \ {"title", "id"} :
              prev.panes[id][f] # current.panes[id][f]}

C7_NothingWhenUnchanged ==
    CalledAgain =>
        LET u == lastUpdate[1] IN
        /\ u.current = u.prev =>
              /\ u.kind = "None"
              /\ u.seq_after = u.seq_before
              /\ u.prev_after = u.prev_before
        /\ u.kind = "Delta" =>
              \E f \in DOMAIN u.delta \ {"seq"} : u.delta[f] # NoneV

\* C7 witness: a call that found the snapshot unchanged, after two emissions
C7_Witness ==
    /\ CalledAgain
    /\ lastUpdate[1].current = lastUpdate[1].prev
    /\ lastUpdate[1].seq_before >= 2

\* the delta entry of an id: all None when the map has no entry for it
EntryOf(opt, id, fields) ==
    IF IsSome(opt) /\ id \in DOMAIN opt[1] /\ IsSome(opt[1][id])
    THEN opt[1][id][1]
    ELSE [f \in fields |-> NoneV]

PaneDeltaFields ==
    {"window_id", "content", "cursor_x", "cursor_y", "width", "height", "x", "y",
     "active", "command", "title", "border_title", "in_mode", "copy_cursor_x",
     "copy_cursor_y", "alternate_on", "mouse_any_flag", "paused", "group_id",
     "group_tab_index"}

WindowDeltaFields ==
    {"name", "active", "is_pane_group_window", "pane_group_parent_pane",
     "pane_group_index", "is_float_window", "float_parent", "float_width",
     "float_height"}

\* an entry holds exactly the fields that differ, with their new values
SparseEntry(entry, before, now, fields) ==
    \A f \in fields :
        entry[f] = (IF before[f] # now[f] THEN Some(now[f]) ELSE NoneV)

\* C8: for every pane and every window of both snapshots, the entry of an
\* emitted delta holds exactly the fields whose values differ: every changed
\* field is present with its new value, no unchanged field is present.
C8_DeltaEntriesExact ==
    (EmittedAgain /\ lastUpdate[1].kind = "Delta") =>
        LET u == lastUpdate[1] IN
        /\ \A id \in DOMAIN u.prev.panes \cap DOMAIN u.current.panes :
              SparseEntry(EntryOf(u.delta.panes, id, PaneDeltaFields),
                          u.prev.panes[id], u.current.panes[id], PaneDeltaFields)
        /\ \A id \in DOMAIN u.prev.windows \cap DOMAIN u.current.windows :
              SparseEntry(EntryOf(u.delta.windows, id, WindowDeltaFields),
                          u.prev.windows[id], u.current.windows[id], WindowDeltaFields)

PanesWithWindow ==
    {id \in DOMAIN aggregator.panes : aggregator.panes[id].window_id # ""}

Settled ==
    /\ IsSome(sessions)
    /\ \A c \in ConnIds : sizeOp[c] = NoneV /\ cleanupOp[c] = NoneV
    /\ \A ch \in 1..MaxChans : inbox[ch] = <<>>
    /\ \A t \in TaskIds : tasks[t].pc \in {"unborn", "run", "done"}
    /\ \E t \in TaskIds : tasks[t].pc = "run"

\* the viewports of the clients attached now
AttachedSizes ==
    Restrict(sessions[1].client_sizes,
             {c \in DOMAIN sessions[1].client_sizes : clientPhase[c] = "attached"})

\* C2: after any sequence of attach, detach and set_client_size operations,
\* the last resize command tmux got for the session carries the minimum
\* columns and the minimum rows over the viewports of the attached clients.
C2_LastResizeIsMin ==
    (Settled /\ DOMAIN AttachedSizes # {})
        => tmuxResize = Some(compute_min_client_size(AttachedSizes))

\* the monitor tasks that were spawned and have not returned
RunningTasks ==
    {t \in TaskIds : tasks[t].pc \notin {"unborn", "done"}}

\* C3: at every moment at most one monitor task runs for the session, also
\* when a client attaches while the monitor of a removed entry shuts down.
C3_AtMostOneMonitor ==
    Cardinality(RunningTasks) <= 1

C5_ShutdownSentNeverAborted ==
    (IsSome(lastCleanup) /\ IsSome(lastCleanup[1].handle)) =>
        /\ lastCleanup[1].sent
        /\ lastCleanup[1].slept <= CLEANUP_SLEEP_MS
        /\ ~lastCleanup[1].aborted

\* C12: the registry never sends a session's monitor a resize whose size
\* equals the value it last applied for the session: on every path that
\* recomputes the minimum, a resize is issued only when the minimum differs
\* from last_resize.
C12_NoResizeToAppliedSize ==
    IsSome(lastResizeSend) => ~lastResizeSend[1].repeats


\* the registry entry the task was started for is gone: the session has no
\* entry, or its entry holds the handle of another task
EntryRemoved(t) ==
    /\ tasks[t].pc # "unborn"
    /\ ~(IsSome(sessions) /\ sessions[1].monitor_handle = Some(t))

\* C13: the monitor task checks the registry before every connect attempt,
\* and a task whose registry entry has been removed when it makes that check
\* goes on to no further connection attempt.
C13_NoConnectAfterRemoval ==
    [][\A t \in TaskIds :
          (tasks[t].pc = "check" /\ EntryRemoved(t)) => tasks'[t].pc # "connect"]_vars

\* the delays of the backoff: 100 ms doubled any number of times, or the cap
BackoffDelays ==
    {INITIAL_BACKOFF_MS * (2 ^ k) : k \in 0..6} \cup {MAX_BACKOFF_MS}

\* C14: the delay a monitor task sleeps between connection attempts is 100 ms
\* for its first sleep and for the sleep after each successful connect, is
\* twice the delay before (or 10 s when that is more) after each other
\* attempt, and is never more than 10 s.
C14_ExponentialBackoff ==
    [][\A t \in TaskIds :
          /\ tasks'[t].pc = "sleep" =>
                /\ tasks'[t].backoff \in BackoffDelays
                /\ tasks'[t].backoff <= MAX_BACKOFF_MS
          /\ (tasks[t].pc = "unborn" /\ tasks'[t].pc # "unborn") =>
                tasks'[t].backoff = INITIAL_BACKOFF_MS
          /\ (tasks[t].pc = "clear" /\ tasks'[t].pc = "sleep") =>
                tasks'[t].backoff = INITIAL_BACKOFF_MS
          /\ (tasks[t].pc = "sleep" /\ tasks'[t].pc # "sleep") =>
                tasks'[t].backoff =
                    IF 2 * tasks[t].backoff > MAX_BACKOFF_MS
                    THEN MAX_BACKOFF_MS ELSE 2 * tasks[t].backoff
          /\ (tasks[t].pc \in {"check", "connect"} /\ tasks'[t].pc # "store") =>
                tasks'[t].backoff = tasks[t].backoff]_vars

\* a monitor task sleeps the capped delay after a row of failed connects
C14_Witness ==
    \E t \in TaskIds :
        /\ tasks[t].pc = "sleep"
        /\ tasks[t].backoff = MAX_BACKOFF_MS
(***************************************************************************)
(*                 CLAIMS ABOUT THE EMISSION THROTTLE                      *)
(***************************************************************************)
\* C15: an iteration of the monitor loop that received a state change other
\* than pane output has called emit_state(to_state_update()) before it ends,
\* whether or not the rate is over the threshold or an output emission is
\* pending; nothing is left pending after it.
C15_NonOutputEmitsAtOnce ==
    (lastIter.arm = "event" /\ lastIter.change = "Other") =>
        /\ lastIter.called
        /\ ~throttle.pending_output_emit
        /\ throttle.last_output_emit = clock

\* a change other than output arrived with the rate over the threshold and
\* an output emission pending, and its update was emitted
C15_Witness ==
    /\ lastIter.arm = "event"
    /\ lastIter.change = "Other"
    /\ lastIter.engaged
    /\ lastIter.pending
    /\ lastIter.emitted

CeilDiv(a, b) ==
    (a + b - 1) \div b

\* the emissions allowed on top of one per throttle interval: those before
\* the rate is over the threshold, and one
EmissionSlack ==
    THROTTLE_THRESHOLD + 1

\* C16: while an output change arrives every millisecond (100 per rate
\* window, over the threshold of 20), the emissions of the first T ms are at
\* most ceil(T / 16) and a constant; and an output change received with the
\* rate at or under the threshold is emitted in its iteration.
C16_ThrottledEmissionBound ==
    /\ steady =>
          emissions <= CeilDiv(clock + 1, THROTTLE_INTERVAL_MS) + EmissionSlack
    /\ (/\ lastIter.arm = "event"
        /\ lastIter.change = "PaneOutput"
        /\ throttle.rate_event_count <= THROTTLE_THRESHOLD) => lastIter.called
(***************************************************************************)
(*                   CLAIMS ABOUT THE CLIENT STREAMS                       *)
(***************************************************************************)
\* C17: the first three events of every client's stream are connection-info,
\* keybindings and a state update that is a Full snapshot, for the first
\* client of a session and for a client that joins a running monitor.
C17_StreamStartsWithFull ==
    \A c \in ConnIds :
        /\ Len(rx[c].log) >= 1 => rx[c].log[1] = "connection-info"
        /\ Len(rx[c].log) >= 2 => rx[c].log[2] = "keybindings"
        /\ Len(rx[c].log) >= 3 => rx[c].log[3] = "state-update Full"

\* C20: a receiver that fell more than the channel capacity behind gets
\* Lagged: its stream stays open, it goes on at the oldest message the
\* channel retains, and from there it is handed every message in order.
C20_LaggedStreamGoesOn ==
    [][\A c \in ConnIds :
          (rx[c].open /\ rx'[c] # rx[c]) =>
              /\ rx'[c].open
              /\ (Len(rx[c].log) >= 2 /\ rx[c].cursor < Oldest) =>
                    /\ rx'[c].last = "Lagged"
                    /\ rx'[c].cursor = Oldest
              /\ (Len(rx[c].log) >= 2 /\ rx[c].cursor >= Oldest) =>
                    /\ rx'[c].last = "Ok"
                    /\ rx'[c].cursor = rx[c].cursor + 1]_vars

\* a stream whose receiver lagged is open and has yielded a message since
C20_Witness ==
    \E c \in ConnIds :
        /\ rx[c].lagged
        /\ rx[c].open
        /\ rx[c].last = "Ok"
        /\ bsent > CHANNEL_CAPACITY
(***************************************************************************)
(*                  CLAIMS ABOUT THE COMMAND ENDPOINT                      *)
(***************************************************************************)
ResizeWords == {"resize-window", "resizew"}

Separators == {" ; ", " \\; "}

\* piece i is the first word of a command of the line: only blanks stand
\* between it and the start of the line or the separator before it
AtCommandStart(line, i) ==
    \E j \in 0..(i - 1) :
        /\ j = 0 \/ line[j] \in Separators
        /\ \A k \in (j + 1)..(i - 1) : line[k] = " "

\* the line holds a resize-window (resizew) command
HoldsResize(line) ==
    \E i \in DOMAIN line : line[i] \in ResizeWords /\ AtCommandStart(line, i)

\* C18: no command line that holds a resize-window or resizew command is
\* queued for the monitor as a RunCommand, and none is written to tmux by
\* the monitor's RunCommand arm.
C18_NoRawResizeForwarded ==
    /\ \A i \in DOMAIN cmdq :
          cmdq[i].cmd = "RunCommand" => ~HoldsResize(cmdq[i].command)
    /\ (IsSome(tmuxIn) /\ tmuxIn[1].via = "RunCommand") => ~HoldsResize(tmuxIn[1].line)

\* a request the endpoint has to refuse: no token or an unregistered one, an
\* unknown command name, or a raw resize that run_tmux_command blocks
Refused(rq, tokens) ==
    \/ rq.token = NoneV
    \/ rq.token[1] \notin tokens
    \/ rq.cmd \notin {"run_tmux_command", "resize_window", "ping"}
    \/ rq.cmd = "run_tmux_command" /\ IsBlockedResize(rq.command)

\* C19: a request with a missing or unregistered token, an unknown command
\* name or a blocked raw resize is answered with a failure code and an error
\* body (`Unknown command: <cmd>' for an unknown name of a registered
\* client), and leaves the tokens, the session's entry, the monitor's queue
\* and tmux as they were.
C19_RefusedWithFailure ==
    [][(requests' = requests + 1 /\ Refused(lastRequest'[1], sse_tokens)) =>
          /\ reply'[1].code >= 400
          /\ IsSome(reply'[1].error)
          /\ reply'[1].result = NoneV
          /\ UNCHANGED <<sse_tokens, has_tx, cmdq, tmuxIn>>
          /\ (/\ IsSome(lastRequest'[1].token)
              /\ lastRequest'[1].token[1] \in sse_tokens
              /\ lastRequest'[1].cmd = "frobnicate") =>
                 reply'[1].error = Some(<<"Unknown command: ", "frobnicate">>)]_vars
(***************************************************************************)
(* Claims about the decoding of pane output                                *)
(***************************************************************************)
\* C21: the content of the Output event parsed from the line tmux writes for
\* a pane's bytes (bytes below 0x20 and the backslash as three-digit octal
\* escapes, all others unchanged) is exactly those bytes.
C21_DecodeRestoresRawBytes ==
    IsSome(octDecoded) => octDecoded[1].content = octRaw

\* the same for decode_octal applied to the encoded bytes themselves
DecodeOfEncodeIsRaw ==
    decode_octal(tmux_encode(octRaw)) = octRaw

\* the pane wrote the single byte 0xFF and the Output event carries U+FFFD
C21_LossyOutput ==
    /\ octRaw = <<255>>
    /\ IsSome(octDecoded)
    /\ octDecoded[1].pane_id = PANE_ID_0
    /\ octDecoded[1].content = REPLACEMENT_CHARACTER

(***************************************************************************)
(* Claims about the OSC parser                                             *)
(***************************************************************************)
\* the output of the claim: OSC 8 opener with the URL and BEL, abc, OSC 8
\* closer with BEL
HyperlinkedAbc(url) ==
    Osc8Open(url, BelTerminator) \o <<97, 98, 99>> \o Osc8Open(<<>>, BelTerminator)

FirstCallWith(content) ==
    /\ oscCalls = 1
    /\ IsSome(oscCall)
    /\ oscCall[1].content = content

\* C22: when a pane's first output is an OSC 8 opener with URL U ended by BEL,
\* the text abc and an OSC 8 closer with empty URL ended by BEL, the bytes
\* handed to the emulator are exactly abc, cells (0,0), (0,1), (0,2) carry U
\* and cell (0,3) carries no URL.
C22_Osc8HyperlinkCells ==
    \A u \in OscUrls :
        FirstCallWith(HyperlinkedAbc(u)) =>
            /\ oscCall[1].output = <<97, 98, 99>>
            /\ \A col \in 0..2 : get_url(osc_parser, 0, col) = Some(u)
            /\ get_url(osc_parser, 0, 3) = NoneV

\* the pane's first output was the hyperlinked abc, with a URL that holds a ';'
C22_Witness ==
    /\ FirstCallWith(HyperlinkedAbc(<<118, 59, 119>>))
    /\ DOMAIN osc_parser.cell_urls = {<<0, 0>>, <<0, 1>>, <<0, 2>>}
    /\ Len(osc_parser.hyperlinks) = 1

(***************************************************************************)
(* Claims about the updates for single events                              *)
(***************************************************************************)
\* the session has the single pane %0, with nothing written to it yet, and
\* the last snapshot sent to the clients shows it
SinglePaneAfterFull ==
    /\ DOMAIN aggregator.panes = {"%0"}
    /\ aggregator.panes["%0"].terminal = NewTerminal
    /\ IsSome(aggregator.prev_state)
    /\ DOMAIN aggregator.prev_state[1].panes = {"%0"}
    /\ seqLog # <<>>
    /\ ~pending_output_emit

\* the event arm takes `%output %0 Hi' below the throttle threshold
TakesOutputHi ==
    HandleEvent(OutputHi, FALSE, process_event(aggregator, OutputHi),
                WithCaptures(process_event(aggregator, OutputHi)))

\* the update is a Delta with this seq that carries the content and the
\* cursor of pane %0
IsDeltaForPane0(u, seq, cx, cy) ==
    /\ u.kind = "Delta"
    /\ u.seq = seq
    /\ IsSome(u.delta.panes)
    /\ DOMAIN u.delta.panes[1] = {"%0"}
    /\ IsSome(u.delta.panes[1]["%0"])
    /\ IsSome(u.delta.panes[1]["%0"][1].content)
    /\ u.delta.panes[1]["%0"][1].cursor_x = Some(cx)
    /\ u.delta.panes[1]["%0"][1].cursor_y = Some(cy)

\* C23: with the single pane %0 and the initial Full emitted, `%output %0 Hi'
\* causes exactly one state update: a Delta with the next seq (2 after the
\* Full's 1) that carries the new content of pane %0 and the cursor (2,0).
C23_OutputHiGivesDelta ==
    [][(SinglePaneAfterFull /\ TakesOutputHi)
       => /\ seqLog' = Append(seqLog, aggregator.delta_seq + 1)
          /\ IsDeltaForPane0(lastUpdate'[1], aggregator.delta_seq + 1, 2, 0)]_vars

\* pane %0 got Hi, its cursor is at (2,0), and the update for it was a Full
C23_FullForOutputHi ==
    /\ lastEventType = "Output"
    /\ DOMAIN aggregator.panes = {"%0"}
    /\ aggregator.panes["%0"].terminal = [rows |-> << <<"H", "i">> >>, cx |-> 2, cy |-> 0]
    /\ Len(seqLog) >= 2
    /\ lastUpdate[1].kind = "Full"
    /\ lastUpdate[1].seq = seqLog[Len(seqLog)]
    /\ lastUpdate[1].current.panes["%0"].content = << <<"H", "i">> >>

\* the event arm takes this event
Takes(ev) ==
    HandleEvent(ev, FALSE, process_event(aggregator, ev),
                WithCaptures(process_event(aggregator, ev)))

PauseOf(p) == [type |-> "Pause", pane_id |-> p]

ContinueOf(p) == [type |-> "Continue", pane_id |-> p]

ContinueCommand(p) == <<"refresh-client -A continue", p>>

InSeq(x, s) == \E i \in 1..Len(s) : s[i] = x

\* the update carries this value of paused for the pane
CarriesPaused(u, p, v) ==
    \/ /\ u.kind = "Full"
       /\ p \in DOMAIN u.current.panes
       /\ u.current.panes[p].paused = v
    \/ /\ u.kind = "Delta"
       /\ IsSome(u.delta.panes)
       /\ p \in DOMAIN u.delta.panes[1]
       /\ IsSome(u.delta.panes[1][p])
       /\ u.delta.panes[1][p][1].paused = Some(v)

\* the pane is shown to the clients, with this value of paused
ShownPaused(p, v) ==
    /\ p \in DOMAIN aggregator.panes
    /\ aggregator.panes[p].paused = v
    /\ IsSome(aggregator.prev_state)
    /\ p \in DOMAIN aggregator.prev_state[1].panes
    /\ aggregator.prev_state[1].panes[p].paused = v
    /\ p \in VisiblePanes(aggregator)

\* C24: on `%pause P' a state update carrying paused:true for P is emitted
\* first and only afterwards the monitor issues refresh-client -A 'P:continue';
\* on the `%continue P' that follows, a state update carrying paused:false
\* for P is emitted.
C24_PausedUpdateBeforeContinue ==
    [][/\ (ShownPaused("%0", FALSE) /\ Takes(PauseOf("%0")))
          => /\ CarriesPaused(lastUpdate'[1], "%0", TRUE)
             /\ InSeq(ContinueCommand("%0"), lastSent')
             /\ ~InSeq(ContinueCommand("%0"), lastUpdate'[1].sent_before)
       /\ (ShownPaused("%0", TRUE) /\ Takes(ContinueOf("%0")))
          => CarriesPaused(lastUpdate'[1], "%0", FALSE)]_vars

\* the continue for %0 had been sent when the update with paused:true for %0
\* was emitted
C24_ContinueBeforeUpdate ==
    /\ lastEventType = "Pause"
    /\ IsSome(lastUpdate)
    /\ CarriesPaused(lastUpdate[1], "%0", TRUE)
    /\ InSeq(ContinueCommand("%0"), lastUpdate[1].sent_before)

\* the same claim without the order of the update and the continue
C24_PausedUpdates ==
    [][/\ (ShownPaused("%0", FALSE) /\ Takes(PauseOf("%0")))
          => /\ CarriesPaused(lastUpdate'[1], "%0", TRUE)
             /\ InSeq(ContinueCommand("%0"), lastSent')
       /\ (ShownPaused("%0", TRUE) /\ Takes(ContinueOf("%0")))
          => CarriesPaused(lastUpdate'[1], "%0", FALSE)]_vars


(***************************************************************************)
(* C29                                                                     *)
(***************************************************************************)
\* the pane is in the aggregator before and after the step, with another
\* width or height after it
DimsChange(p) ==
    /\ p \in DOMAIN aggregator.panes
    /\ p \in DOMAIN aggregator'.panes
    /\ \/ aggregator'.panes[p].width # aggregator.panes[p].width
       \/ aggregator'.panes[p].height # aggregator.panes[p].height

\* the step appended the pane to the pending captures
Enqueued(p) ==
    /\ Len(aggregator'.pending_captures) > Len(aggregator.pending_captures)
    /\ SubSeq(aggregator'.pending_captures, 1, Len(aggregator.pending_captures))
            = aggregator.pending_captures
    /\ InSeq(p, SubSeq(aggregator'.pending_captures,
                       Len(aggregator.pending_captures) + 1,
                       Len(aggregator'.pending_captures)))

\* C29: whenever a step changes the width or the height of a pane (a
\* %layout-change or a list-panes response), the pane has a fresh emulator
\* after it, the monitor has sent a capture-pane for the pane, and the pane id
\* was appended to the pending captures
C29_ResizedPaneIsRecaptured ==
    [][\A p \in PaneIds :
         DimsChange(p) =>
            /\ aggregator'.panes[p].terminal = NewTerminal
            /\ InSeq(<<"capture-pane", p>>, lastSent')
            /\ Enqueued(p)]_vars

\* %0 was 8 wide, a %layout-change made it 4 wide; its capture is sent and
\* is the last one pending
C29_Witness ==
    /\ lastEventType = "LayoutChange"
    /\ "%0" \in DOMAIN aggregator.panes
    /\ aggregator.panes["%0"].width = 4
    /\ aggregator.panes["%0"].terminal = NewTerminal
    /\ lastSent = << <<"capture-pane", "%0">> >>
    /\ aggregator.pending_captures # <<>>
    /\ aggregator.pending_captures[Len(aggregator.pending_captures)] = "%0"

(***************************************************************************)
(* C30                                                                     *)
(***************************************************************************)
\* the pane is in copy mode with a snapshot installed
HasSnapshot(agg, p) ==
    /\ p \in DOMAIN agg.panes
    /\ agg.panes[p].in_mode
    /\ IsSome(agg.panes[p].copy_mode_content)

\* the event arm takes this Output event in a copy-mode session
TakesOutput(ev, throttled) ==
    /\ ev.type = "Output"
    /\ steps' = steps + 1
    /\ Handle(ev, throttled, process_event(aggregator, ev),
              WithCaptures(process_event(aggregator, ev)))

\* the update shows this content for the pane wherever it shows the pane,
\* and as a Delta it carries no content for it
ShowsContent(u, p, content) ==
    /\ p \in DOMAIN u.current.panes => u.current.panes[p].content = content
    /\ (u.kind = "Delta" /\ IsSome(u.delta.panes) /\ p \in DOMAIN u.delta.panes[1]
            /\ IsSome(u.delta.panes[1][p]))
        => u.delta.panes[1][p][1].content = NoneV

\* C30: when an Output event arrives for a pane that is in copy mode with a
\* snapshot installed, its bytes go into the live emulator of the pane, the
\* snapshot stays as it was, and the content shown to clients for the pane,
\* in the update emitted for the event too, is the snapshot
C30_SnapshotShownDuringCopyMode ==
    [][\A ev \in {e \in CopyModeEvents : e.type = "Output"} :
       \A throttled \in BOOLEAN :
         (HasSnapshot(aggregator, ev.pane_id) /\ TakesOutput(ev, throttled)) =>
            /\ aggregator'.panes[ev.pane_id].terminal
                    = TermProcess(aggregator.panes[ev.pane_id].terminal, ev.content)
            /\ HasSnapshot(aggregator', ev.pane_id)
            /\ to_tmux_pane(aggregator'.panes[ev.pane_id]).content
                    = aggregator.panes[ev.pane_id].copy_mode_content[1]
            /\ ~throttled =>
                    /\ IsSome(lastUpdate')
                    /\ ShowsContent(lastUpdate'[1], ev.pane_id,
                                    aggregator.panes[ev.pane_id].copy_mode_content[1])]_vars

\* an Output event for %0 was emitted at once while %0 was in copy mode: the
\* update shows the snapshot, which is not what the live emulator holds
C30_Witness ==
    /\ lastEventType = "Output"
    /\ ~pending_output_emit
    /\ HasSnapshot(aggregator, "%0")
    /\ get_content(aggregator.panes["%0"]) # aggregator.panes["%0"].copy_mode_content[1]
    /\ IsSome(lastUpdate)
    /\ lastUpdate[1].kind # "None"
    /\ "%0" \in DOMAIN lastUpdate[1].current.panes
    /\ lastUpdate[1].current.panes["%0"].content
            = aggregator.panes["%0"].copy_mode_content[1]

(***************************************************************************)
(* C31                                                                     *)
(***************************************************************************)
\* C31: every pane the aggregator holds has a non-empty window identifier
C31_PanesHaveWindow ==
    \A p \in DOMAIN aggregator.panes : aggregator.panes[p].window_id # ""

\* a list-panes line of eleven fields left pane %2 without a window, beside
\* panes that have one
C31_PaneWithoutWindow ==
    /\ "%2" \in DOMAIN aggregator.panes
    /\ aggregator.panes["%2"].window_id = ""
    /\ "%0" \in DOMAIN aggregator.panes
    /\ aggregator.panes["%0"].window_id = "@0"

(***************************************************************************)
(* C32                                                                     *)
(***************************************************************************)
\* the windows an update carries to the clients: all of them in a Full, the
\* new ones in a Delta
SentWindows(u) ==
    CASE u.kind = "Full" -> {u.current.windows[w] : w \in DOMAIN u.current.windows}
      [] u.kind = "Delta" ->
            IF IsSome(u.delta.new_windows)
            THEN {u.delta.new_windows[1][w] : w \in DOMAIN u.delta.new_windows[1]}
            ELSE {}
      [] OTHER -> {}

\* C32: no update sent to the clients carries a window whose name is empty
C32_NoUnnamedWindowSent ==
    IsSome(lastUpdate) => \A w \in SentWindows(lastUpdate[1]) : w.name # ""

\* a Delta brought window @1, which %window-add inserted and nothing has
\* named yet, to the clients
C32_UnnamedWindowInDelta ==
    /\ IsSome(lastUpdate)
    /\ lastUpdate[1].kind = "Delta"
    /\ lastEventType \notin {"WindowAdd", "WindowRenamed", "CommandResponse"}
    /\ "@1" \in DOMAIN aggregator.windows
    /\ aggregator.windows["@1"].name = ""
    /\ \E w \in SentWindows(lastUpdate[1]) : w.id = "@1" /\ w.name = ""

(***************************************************************************)
(* C33                                                                     *)
(***************************************************************************)
SplitLayout == "c,8x4,0,0{4x4,0,0,0,4x4,4,0,1}"

LayoutChangeOf(w, l) == [type |-> "LayoutChange", window_id |-> w, layout |-> l]

\* what a layout string says of its panes: `4x4,0,0,0' is pane %0 of 4x4 at
\* (0,0), and in the split `4x4,4,0,1' is pane %1 of 4x4 at (4,0)
GeometryOf(l) ==
    CASE l = "c,4x4,0,0,0" -> ("%0" :> [x |-> 0, y |-> 0, width |-> 4, height |-> 4])
      [] l = SplitLayout ->
            ("%0" :> [x |-> 0, y |-> 0, width |-> 4, height |-> 4])
            @@ ("%1" :> [x |-> 4, y |-> 0, width |-> 4, height |-> 4])

GeometryIs(pane, g) ==
    /\ pane.x = g.x /\ pane.y = g.y
    /\ pane.width = g.width /\ pane.height = g.height

\* C33: after a %layout-change of window @0, every pane of @0 that the layout
\* names, inside a split too, has the position and the size the layout
\* gives it, and a capture-pane was sent for each whose size changed
C33_LayoutSetsEveryPane ==
    [][\A l \in Layouts :
         Takes(LayoutChangeOf("@0", l)) =>
            \A p \in DOMAIN GeometryOf(l) :
                (p \in DOMAIN aggregator.panes /\ aggregator.panes[p].window_id = "@0") =>
                    /\ p \in DOMAIN aggregator'.panes
                    /\ GeometryIs(aggregator'.panes[p], GeometryOf(l)[p])
                    /\ (aggregator.panes[p].width # GeometryOf(l)[p].width
                        \/ aggregator.panes[p].height # GeometryOf(l)[p].height)
                        => InSeq(<<"capture-pane", p>>, lastSent')]_vars

\* the split layout was taken for window @0 and its panes %0 and %1 are
\* still 8 wide, nothing sent
C33_SplitLayoutIgnored ==
    /\ lastEventType = "LayoutChange"
    /\ "@0" \in DOMAIN aggregator.windows
    /\ aggregator.windows["@0"].layout = SplitLayout
    /\ {"%0", "%1"} \subseteq DOMAIN aggregator.panes
    /\ aggregator.panes["%0"].window_id = "@0"
    /\ aggregator.panes["%1"].window_id = "@0"
    /\ aggregator.panes["%0"].width = 8
    /\ aggregator.panes["%1"].x = 8
    /\ lastSent = <<>>
(***************************************************************************)
(* Claims about the capture-pane replies                                   *)
(***************************************************************************)
\* the panes as this reply of the capture-pane for the pane leaves them: the
\* content goes to that pane, nothing goes anywhere after an error
PanesAfterCapture(panes, pane_id, answer) ==
    IF answer.success /\ pane_id \in DOMAIN panes
    THEN [panes EXCEPT ![pane_id] = ApplyCapture(@, answer.output)]
    ELSE panes

\* C26: the content of each capture-pane reply is applied to the pane the
\* capture-pane command targeted and to no other pane, also after an earlier
\* capture reply that was empty, an error or made of list-like lines, and
\* when replies to other commands arrive while captures are pending.
C26_CaptureGoesToItsPane ==
    [][\A answer \in AllReplies :
          (/\ outstanding # <<>>
           /\ Head(outstanding)[1] = "capture-pane"
           /\ TmuxReplies(answer))
          => aggregator'.panes =
                PanesAfterCapture(aggregator.panes, Head(outstanding)[2], answer)]_vars

\* tmux has answered the capture-pane of %0 with nothing and that of %1 with
\* text, and the text is in pane %0 while pane %1 is empty
C26_ContentInWrongPane ==
    /\ outstanding = <<>>
    /\ replies = 6
    /\ aggregator.pending_captures = <<"%1">>
    /\ aggregator.panes["%0"].terminal.rows = << <<"a">> >>
    /\ aggregator.panes["%1"].terminal.rows = <<>>


(***************************************************************************)
(* C39                                                                     *)
(***************************************************************************)
\* some cell of the pane's grid carries a URL
SomeCellHasUrl ==
    \E row \in 0..(raw_pane.terminal.rows - 1), col \in 0..(raw_pane.terminal.cols - 1) :
        IsSome(CellUrl(raw_pane, row, col))

\* C39: after a resize that changed the dimensions and after
\* reset_and_process_capture the pane's cell-URL map is empty: no cell of the
\* fresh grid carries a URL
C39_UrlsClearedOnReset ==
    raw_op \in {"resize", "reset_and_process_capture"} =>
        /\ DOMAIN raw_pane.osc_parser.cell_urls = {}
        /\ ~SomeCellHasUrl

\* linked text was printed, the pane was resized, and a cell of the fresh
\* grid carries the old URL
C39_StaleUrlAfterResize ==
    /\ raw_op = "resize"
    /\ raw_pane.raw_buffer = <<>>
    /\ CellUrl(raw_pane, 0, 0) = Some(<<117>>)

(***************************************************************************)
(* C40                                                                     *)
(***************************************************************************)
\* C40: after every call on the pane its raw buffer holds at most
\* 65536 bytes
C40_RawBufferCapped ==
    Len(raw_pane.raw_buffer) <= RAW_BUFFER_LIMIT

\* a capture of more than 64 KiB is the raw buffer, whole
C40_CaptureOverCap ==
    /\ raw_op = "reset_and_process_capture"
    /\ Len(raw_pane.raw_buffer) = 65537

\* process_output alone keeps to the cap and drops the oldest bytes: after
\* it the buffer is within the cap unless it was over it before the call
C40_OutputKeepsCap ==
    [][\A content \in PaneOutputs :
          PaneOutput(content) =>
              /\ Len(raw_pane'.raw_buffer) <= RAW_BUFFER_LIMIT
              /\ raw_pane'.raw_buffer =
                   SubSeq(raw_pane.raw_buffer \o content,
                          Len(raw_pane.raw_buffer) + Len(content)
                             - Len(raw_pane'.raw_buffer) + 1,
                          Len(raw_pane.raw_buffer) + Len(content))]_vars

(***************************************************************************)
(* C37                                                                     *)
(***************************************************************************)
\* an output change is held back: the rate is over the threshold and the
\* emission is pending
OutputHeldBack ==
    /\ throttle.pending_output_emit
    /\ throttle.rate_event_count > THROTTLE_THRESHOLD

\* C37: an output change that is held back by the throttle is emitted
\* without another event having to arrive: the timer arm emits what
\* to_state_update() answers for it,
\* and while it waits no more than one throttle interval
\* (16 ms) has passed since the last emission
C37_HeldBackOutputIsEmitted ==
    /\ [](throttle.pending_output_emit =>
            clock - throttle.last_output_emit <= THROTTLE_INTERVAL_MS)
    /\ (OutputHeldBack /\ clock + THROTTLE_INTERVAL_MS <= LiveTime)
            ~> ~throttle.pending_output_emit

\* the throttle timer has emitted an update that was held back with the
\* rate over the threshold
C37_Witness ==
    /\ lastIter.arm = "timer"
    /\ lastIter.engaged
    /\ lastIter.pending
    /\ lastIter.emitted
    /\ ~throttle.pending_output_emit
    /\ throttle.last_output_emit = clock

\* an output change is held back early enough for the interval to be followed
C37_HeldBackEarly ==
    OutputHeldBack /\ clock + THROTTLE_INTERVAL_MS <= LiveTime

(***************************************************************************)
(* C36                                                                     *)
(***************************************************************************)
\* the monitor is in a write to the child's stdin that cannot go on
MonitorBlockedInWrite ==
    mon.pc = "write" /\ stdin_pipe = PipeCap

\* the reader task is in a send into the full event channel
ReaderBlockedInSend ==
    IsSome(reader) /\ Len(event_ch) = ChannelCap

\* the child is in a write to its full stdout, so it does not read stdin
ChildBlockedInWrite ==
    IsSome(child) /\ Len(stdout_pipe) = PipeCap

\* C36: the monitor is never stuck for good in a write to the child's stdin
\* while the reader task is stuck in a send into the full event channel:
\* the three never wait for each other in a circle
C36_NoCircularWait ==
    ~(MonitorBlockedInWrite /\ ReaderBlockedInSend /\ ChildBlockedInWrite)

\* the monitor is in the write of a client's command, the reader and the
\* child wait too, and no step is left to any of them
C36_StuckForGood ==
    /\ MonitorBlockedInWrite
    /\ ReaderBlockedInSend
    /\ ChildBlockedInWrite
    /\ commands_in > 0
    /\ ~ENABLED NextPipes
(***************************************************************************)
(* Claims about the viewports of two clients                               *)
(***************************************************************************)
\* client 1 is A (100x40) and client 2 is B (80x30); both are attached
SizesAB == (1 :> <<100, 40>>) @@ (2 :> <<80, 30>>)

BothReported ==
    /\ IsSome(sessions)
    /\ sessions[1].connections = <<1, 2>>
    /\ sessions[1].client_sizes = SizesAB

\* this step puts ResizeWindow(size) on a monitor's command channel or
\* resizes tmux to the size directly
IssuesResize(size) ==
    \/ \E ch \in DOMAIN inbox :
          /\ Len(inbox'[ch]) = Len(inbox[ch]) + 1
          /\ inbox'[ch][Len(inbox'[ch])] = ResizeWindow(size)
    \/ tmuxResize' = Some(size) /\ tmuxResize # Some(size)

\* the set_client_size that made the sizes A and B known finishes
ReportCompletes(c) ==
    /\ BothReported
    /\ IsSome(sizeOp[c])
    /\ SetClientSizeSend(c)

\* A's cleanup_connection finishes, B staying attached with its size
ACleanupCompletes ==
    /\ IsSome(sessions)
    /\ sessions[1].connections = <<2>>
    /\ sessions[1].client_sizes = (2 :> <<80, 30>>)
    /\ IsSome(cleanupOp[1])
    /\ CleanupResize(1)

\* C25: with client A attached reporting 100x40 and client B attached
\* reporting 80x30 the registry issues Resize(80,30); when client A then
\* disconnects, the registry issues Resize(100,40).
C25_ResizeOnDetachOfA ==
    [][/\ \A c \in ConnIds : ReportCompletes(c) => IssuesResize(<<80, 30>>)
       /\ ACleanupCompletes => IssuesResize(<<100, 40>>)]_vars

\* B's size was reported, A has gone and its cleanup has sent a resize that
\* repeats the size last applied
C25_RepeatedAfterA ==
    /\ IsSome(sessions)
    /\ sessions[1].connections = <<2>>
    /\ sessions[1].client_sizes = (2 :> <<80, 30>>)
    /\ sessions[1].last_resize = Some(<<80, 30>>)
    /\ clientPhase[1] = "gone"
    /\ lastResizeSend = Some([by |-> "cleanup_connection", repeats |-> TRUE])

\* C27: whenever no resize is in flight, the session's last_resize is the
\* size of the resize most recently delivered to tmux for the session, also
\* when set_client_size ran before the monitor's command channel existed,
\* when two set_client_size calls ran concurrently, and after a reconnect
\* of the monitor.
C27_LastResizeIsDelivered ==
    (Settled /\ IsSome(sessions[1].last_resize))
        => sessions[1].last_resize = tmuxResize

\* nothing is in flight, last_resize holds a client's viewport and the last
\* resize tmux got is the initial size of sync_initial_state
C27_InitialSizeAfterReport ==
    /\ Settled
    /\ sessions[1].last_resize = Some(<<80, 50>>)
    /\ tmuxResize = Some(<<INITIAL_PTY_COLS, INITIAL_PTY_ROWS>>)

\* the task has stopped and left a connection to tmux that it never sent
\* detach-client on and whose child still runs
DroppedConnection(t) ==
    /\ tasks[t].pc = "done"
    /\ tasks[t].chan # 0
    /\ tasks[t].child_alive
    /\ ~tasks[t].detach_sent

\* C28: after the last client of the session has detached, the connections
\* of the session's monitor task are closed through graceful_close
\* (detach-client) and not dropped, in whatever phase the detach found the
\* task; the task is to terminate, and at its end none of its connections
\* is a dropped one.
C28_NoDroppedConnection ==
    \A t \in TaskIds : ~DroppedConnection(t)

\* the last client has gone, its cleanup found no command channel and sent
\* no Shutdown, and the task has stopped with its connection dropped
C28_DroppedWhileStoring ==
    /\ sessions = NoneV
    /\ IsSome(lastCleanup)
    /\ \E t \in TaskIds : DroppedConnection(t) /\ ~tasks[t].shutdown_seen


(***************************************************************************)
(* C34                                                                     *)
(***************************************************************************)
\* C34: the viewport map of every session holds entries only for the
\* connection ids in the connection list of that session
C34_SizesOnlyOfConnections ==
    \A s \in RouteSessions :
        IsSome(session_map[s]) =>
            \A c \in DOMAIN session_map[s][1].client_sizes :
                InSeq(c, session_map[s][1].connections)

\* both streams were of session S and no other session was ever there;
\* connection 1 is gone, and its viewport is in the map of S beside
\* connection 2
C34_StaleViewportAfterCleanup ==
    /\ stream[1] = [phase |-> "gone", session |-> SessionS]
    /\ stream[2].session = SessionS
    /\ session_map[SessionT] = NoneV
    /\ IsSome(session_map[SessionS])
    /\ session_map[SessionS][1].connections = <<2>>
    /\ 1 \in DOMAIN session_map[SessionS][1].client_sizes

(***************************************************************************)
(* C35                                                                     *)
(***************************************************************************)
\* handle_command ends for the request that came with the token of c
Handles(c) ==
    IsSome(in_flight[c]) /\ in_flight'[c] = NoneV

\* C35: a command that came with the token of a connection to session S
\* changes the registry entry and the viewport map of S only, and goes to
\* the monitor of S only
C35_CommandStaysInTokenSession ==
    [][\A c \in ConnIds :
         Handles(c) =>
            \A s \in RouteSessions \ {in_flight[c][1].token_session} :
                /\ session_map'[s] = session_map[s]
                /\ monitor_rx'[s] = monitor_rx[s]]_vars

\* connection 1 streams session S, connection 2 session T; the viewport of
\* connection 1 is in the map of T and T's monitor was told to resize
C35_ViewportInOtherSession ==
    /\ stream[1] = [phase |-> "streaming", session |-> SessionS]
    /\ stream[2] = [phase |-> "streaming", session |-> SessionT]
    /\ IsSome(session_map[SessionT])
    /\ 1 \in DOMAIN session_map[SessionT][1].client_sizes
    /\ 2 \notin DOMAIN session_map[SessionT][1].client_sizes
    /\ monitor_rx[SessionT] # <<>>

(***************************************************************************)
(* C38                                                                     *)
(***************************************************************************)
\* C38: when the loop of run() has ended on an Exit event, its last
\* iteration has emitted the Session change of that event to the clients
C38_ExitEmitsSession ==
    ~running =>
        /\ lastIter.arm = "exit"
        /\ lastIter.called
        /\ lastIter.emitted

\* the loop has ended on an Exit event while an output change was held
\* back: neither that change nor a Session change was emitted
C38_ExitWithPendingOutput ==
    /\ ~running
    /\ errors = 1
    /\ lastIter.arm = "exit"
    /\ lastIter.pending
    /\ ~lastIter.emitted

\* after the break no event is processed: nothing of the loop changes
C38_NothingAfterExit ==
    [][~running => UNCHANGED <<loopVars, runVars>>]_vars
====
